---- MODULE Spec2Model ----
(***************************************************************************)
(* Verification model of informix_fdw: the connection cache, the           *)
(* statement call stack with its error trap, the scan callbacks of the     *)
(* foreign data wrapper, and the predicate pushdown walker.                *)
(***************************************************************************)
EXTENDS Integers, Sequences, FiniteSets, TLC

(***************************************************************************)
(* Bounds of the model.                                                    *)
(***************************************************************************)
MaxUsage == 5

Keys  == {1, 2}          \* connection names (coninfo->conname)
Scans == {1, 2}          \* foreign scan nodes known to the host

(***************************************************************************)
(* Call stack flags (ifx_type_compat.h).  The bit mask is modelled as the  *)
(* set of the bits that are set: | is \cup, & ~x is \ x.                   *)
(***************************************************************************)
IFX_STACK_EMPTY    == {}
IFX_STACK_PREPARE  == {"PREPARE"}
IFX_STACK_DECLARE  == {"DECLARE"}
IFX_STACK_ALLOCATE == {"ALLOCATE"}
IFX_STACK_DESCRIBE == {"DESCRIBE"}
IFX_STACK_OPEN     == {"OPEN"}

(***************************************************************************)
(* SQLSTATE classes a remote call can be classified as.                    *)
(***************************************************************************)
IfxSqlStateClass ==
  {"IFX_RT_ERROR", "IFX_SUCCESS", "IFX_WARNING", "IFX_ERROR", "IFX_NOT_FOUND",
   "IFX_STATE_UNKNOWN", "IFX_ERROR_TABLE_NOT_FOUND", "IFX_ERROR_INVALID_NAME"}

ConnStatusClass == {"IFX_CONNECTION_OK", "IFX_CONNECTION_WARN", "IFX_CONNECTION_ERROR"}

IfxCursorUsage == {"IFX_SCROLL_CURSOR", "IFX_UPDATE_CURSOR", "IFX_DEFAULT_CURSOR",
                   "IFX_INSERT_CURSOR"}

OkClasses  == {"IFX_SUCCESS", "IFX_WARNING"}
ErrClasses == {"IFX_RT_ERROR", "IFX_ERROR", "IFX_ERROR_TABLE_NOT_FOUND",
               "IFX_ERROR_INVALID_NAME"}

(***************************************************************************)
(* Connection cache (ifx_conncache.c).  An absent entry is NoEntry.        *)
(***************************************************************************)
NoEntry == [present |-> FALSE, usage |-> 0, tx_in_progress |-> 0]

\* a lookup that leaves the usage counter of a found entry alone
ifxConnCache_addNoIncrement(c, k) ==
  IF c[k].present
    THEN c
    ELSE [c EXCEPT ![k] = [present |-> TRUE, usage |-> 1, tx_in_progress |-> 0]]

\* hash_search(HASH_ENTER): a new entry starts with usage 1, a found one has
\* its usage counter incremented, whatever coninfo->scan_mode says.
ifxConnCache_add(c, k) ==
  IF c[k].present
    THEN [c EXCEPT ![k].usage = @ + 1]
    ELSE [c EXCEPT ![k] = [present |-> TRUE, usage |-> 1, tx_in_progress |-> 0]]

\* a removal that leaves the entry in the table
ifxConnCache_rmKeeps(c, k) == c

\* hash_search(HASH_REMOVE)
ifxConnCache_rm(c, k) == [c EXCEPT ![k] = NoEntry]

\* non-mutating lookup used by the administrative close
ifxConnCache_exists(c, k) == c[k].present

(***************************************************************************)
(* The statement machine.  A callback runs as a chain of steps over a      *)
(* record m: the statement handle (key, ref, cursorUsage, cs = call_stack),*)
(* the remote side (cur = current session, est = established sessions,    *)
(* res = what exists under the names of the statement on its own session:  *)
(* PREPARE the statement, DECLARE the cursor, OPEN the open cursor,        *)
(* ALLOCATE the descriptor area), the class of the last remote call (last) *)
(* and what happened so far: raised (an ERROR was reported, nothing after  *)
(* it runs), errclass (the class it was raised for), unheld (a release was *)
(* issued for a resource not held), unwound (the call stack was unwound),  *)
(* wrong (a remote call was issued while                                   *)
(* another session was current), feasible (the outcomes chosen are ones    *)
(* the remote side can produce).  A call issued while another session is   *)
(* current does not find the objects of the statement there.               *)
(***************************************************************************)
OnSession(m) == m.cur = m.key /\ m.est[m.key]

Has(m, r) == OnSession(m) /\ r \in m.res

\* every remote call goes to the current session
RemoteCall(m, out) ==
  [m EXCEPT !.last = out, !.wrong = @ \/ (m.cur # m.key)]

\* a remote call that acquires resource r and needs resource need
Acquire(m, out, need, r) ==
  IF m.raised THEN m
  ELSE IF out \in OkClasses
    THEN IF OnSession(m) /\ need \subseteq m.res
           THEN [RemoteCall(m, out) EXCEPT !.res = @ \cup r]
           ELSE [m EXCEPT !.feasible = FALSE]
    ELSE RemoteCall(m, out)

ifxPrepareQuery(m, out) == Acquire(m, out, {}, {"PREPARE"})

ifxDeclareCursorForPrepared(m, out) ==
  Acquire(m, out, {"PREPARE"}, {"DECLARE"})

ifxDescribeAllocatorByName(m, out) ==
  Acquire(m, out, {"PREPARE"}, {"ALLOCATE"})

\* where an open cursor stands: on its first row, on a later row, or (with
\* neither) before its first row
CursorRows == {"FIRST", "LATER"}

\* OPEN cursor: the cursor stands before the first row of its result set
ifxOpenCursorForPrepared(m, out) ==
  IF m.raised \/ out \notin OkClasses
    THEN Acquire(m, out, {"DECLARE"}, {"OPEN"})
    ELSE [Acquire(m, out, {"DECLARE"}, {"OPEN"}) EXCEPT !.res = @ \ CursorRows]

\* DESCRIBE INPUT of a prepared statement into a descriptor area
ifxDescribeStmtInput(m, out) == Acquire(m, out, {"PREPARE"}, {"ALLOCATE"})

\* FLUSH of an open insert cursor
ifxFlushCursor(m, out) ==
  IF m.raised THEN m
  ELSE IF out \in OkClasses /\ ~Has(m, "OPEN")
    THEN [m EXCEPT !.feasible = FALSE]
    ELSE RemoteCall(m, out)

\* reads the column count out of the descriptor area
ifxDescriptorColumnCount(m, out) ==
  IF m.raised THEN m
  ELSE IF out \in OkClasses /\ "ALLOCATE" \notin m.res
    THEN [m EXCEPT !.feasible = FALSE]
    ELSE [m EXCEPT !.last = out]

\* the entry of a release call in the log of the unwind
ReleaseCall(name) == [kind |-> "call", what |-> {name}]

\* FETCH NEXT: IFX_NOT_FOUND is the end of the result set; a row fetched
\* moves the cursor to its first row, or from there on to a later one
ifxFetchRowFromCursor(m, out) ==
  IF m.raised THEN m
  ELSE IF out \in OkClasses \cup {"IFX_NOT_FOUND"}
    THEN IF Has(m, "OPEN")
           THEN [RemoteCall(m, out) EXCEPT
                   !.res = IF out = "IFX_NOT_FOUND" THEN @
                           ELSE IF @ \cap CursorRows = {}
                             THEN @ \cup {"FIRST"}
                             ELSE (@ \ CursorRows) \cup {"LATER"}]
           ELSE [m EXCEPT !.feasible = FALSE]
    ELSE RemoteCall(m, out)

\* FETCH FIRST: a row fetched is the first row; with IFX_NOT_FOUND the
\* result set has no first row and the cursor stands on none
ifxFetchFirstRowFromCursor(m, out) ==
  IF m.raised THEN m
  ELSE IF out \in OkClasses \cup {"IFX_NOT_FOUND"}
    THEN IF Has(m, "OPEN")
           THEN [RemoteCall(m, out) EXCEPT
                   !.res = IF out = "IFX_NOT_FOUND" THEN @ \ CursorRows
                           ELSE (@ \ CursorRows) \cup {"FIRST"}]
           ELSE [m EXCEPT !.feasible = FALSE]
    ELSE RemoteCall(m, out)

\* CLOSE cursor: closing a cursor that is not open on the current session
\* is a release of a resource not held.
ifxCloseCursor(m, out) ==
  IF m.raised THEN m
  ELSE IF out \in OkClasses
    THEN IF Has(m, "OPEN")
           THEN [RemoteCall(m, out) EXCEPT
                   !.res = @ \ ({"OPEN"} \cup CursorRows),
                   !.log = Append(@, ReleaseCall("CLOSE"))]
           ELSE [m EXCEPT !.feasible = FALSE]
    ELSE [RemoteCall(m, out) EXCEPT
            !.unheld = @ \/ ~Has(m, "OPEN"),
            !.log = Append(@, ReleaseCall("CLOSE"))]

\* what the remote side answers to a release: the unwind does not look at it
Released(held) == IF held THEN "IFX_SUCCESS" ELSE "IFX_ERROR"

\* frees the descriptor area the client library allocated
ifxDeallocateSQLDA(m) ==
  [m EXCEPT !.res = @ \ {"ALLOCATE"}, !.unheld = @ \/ "ALLOCATE" \notin m.res,
            !.log = Append(@, ReleaseCall("DEALLOCATE"))]

\* FREE cursor (which closes it) / FREE statement on the current session
ifxFreeResource(m, stackentry) ==
  LET r    == IF stackentry = {"DECLARE"} THEN "DECLARE" ELSE "PREPARE"
      held == Has(m, r)
      c    == [RemoteCall(m, Released(held)) EXCEPT
                 !.log = Append(@, ReleaseCall(IF r = "DECLARE"
                                                 THEN "FREE_CURSOR"
                                                 ELSE "FREE_STMT"))]
  IN IF held
       THEN [c EXCEPT !.res = @ \ (IF r = "DECLARE"
                                     THEN {"DECLARE", "OPEN"} \cup CursorRows
                                     ELSE {"PREPARE"})]
       ELSE [c EXCEPT !.unheld = TRUE]

\* the SQLSTATE class of the last remote call
ifxSetException(m) == m.last

(***************************************************************************)
(* Call stack and error trap (ifx_fdw.c).                                  *)
(***************************************************************************)
ifxPushCallstack(m, stackentry) ==
  IF stackentry = {} THEN m
  ELSE [m EXCEPT !.cs = @ \cup stackentry, !.pushes = Append(@, stackentry)]

ifxPopCallstack(m, stackentry) ==
  [m EXCEPT !.cs = @ \ stackentry,
            !.log = Append(@, [kind |-> "pop", what |-> stackentry])]

\* an unwind that does not reset the call stack at its end
ifxRewindCallstackNoReset(m) ==
  LET Close(x) == IF IFX_STACK_OPEN \subseteq x.cs
                    THEN ifxPopCallstack(
                           ifxCloseCursor(x, Released(Has(x, "OPEN"))),
                           IFX_STACK_OPEN)
                    ELSE x
      Deallocate(x) == IF IFX_STACK_ALLOCATE \subseteq x.cs
                         THEN ifxPopCallstack(ifxDeallocateSQLDA(x),
                                              IFX_STACK_ALLOCATE)
                         ELSE x
      FreeCursor(x) == IF IFX_STACK_DECLARE \subseteq x.cs
                         THEN ifxPopCallstack(
                                ifxFreeResource(x, IFX_STACK_DECLARE),
                                IFX_STACK_DECLARE)
                         ELSE x
      FreeStatement(x) == IF IFX_STACK_PREPARE \subseteq x.cs
                            THEN ifxPopCallstack(
                                   ifxFreeResource(x, IFX_STACK_PREPARE),
                                   IFX_STACK_PREPARE)
                            ELSE x
  IN [FreeStatement(FreeCursor(Deallocate(Close(m)))) EXCEPT
        !.unwound = TRUE]

\* an unwind that frees the prepared statement before the cursor declared
\* for it
ifxRewindCallstackStatementFirst(m) ==
  LET Close(x) == IF IFX_STACK_OPEN \subseteq x.cs
                    THEN ifxPopCallstack(
                           ifxCloseCursor(x, Released(Has(x, "OPEN"))),
                           IFX_STACK_OPEN)
                    ELSE x
      Deallocate(x) == IF IFX_STACK_ALLOCATE \subseteq x.cs
                         THEN ifxPopCallstack(ifxDeallocateSQLDA(x),
                                              IFX_STACK_ALLOCATE)
                         ELSE x
      FreeCursor(x) == IF IFX_STACK_DECLARE \subseteq x.cs
                         THEN ifxPopCallstack(
                                ifxFreeResource(x, IFX_STACK_DECLARE),
                                IFX_STACK_DECLARE)
                         ELSE x
      FreeStatement(x) == IF IFX_STACK_PREPARE \subseteq x.cs
                            THEN ifxPopCallstack(
                                   ifxFreeResource(x, IFX_STACK_PREPARE),
                                   IFX_STACK_PREPARE)
                            ELSE x
  IN [FreeCursor(FreeStatement(Deallocate(Close(m)))) EXCEPT
        !.cs = IFX_STACK_EMPTY, !.unwound = TRUE]

ifxRewindCallstack(m) ==
  LET Close(x) == IF IFX_STACK_OPEN \subseteq x.cs
                    THEN ifxPopCallstack(
                           ifxCloseCursor(x, Released(Has(x, "OPEN"))),
                           IFX_STACK_OPEN)
                    ELSE x
      Deallocate(x) == IF IFX_STACK_ALLOCATE \subseteq x.cs
                         THEN ifxPopCallstack(ifxDeallocateSQLDA(x),
                                              IFX_STACK_ALLOCATE)
                         ELSE x
      FreeCursor(x) == IF IFX_STACK_DECLARE \subseteq x.cs
                         THEN ifxPopCallstack(
                                ifxFreeResource(x, IFX_STACK_DECLARE),
                                IFX_STACK_DECLARE)
                         ELSE x
      FreeStatement(x) == IF IFX_STACK_PREPARE \subseteq x.cs
                            THEN ifxPopCallstack(
                                   ifxFreeResource(x, IFX_STACK_PREPARE),
                                   IFX_STACK_PREPARE)
                            ELSE x
  IN [FreeStatement(FreeCursor(Deallocate(Close(m)))) EXCEPT
        !.cs = IFX_STACK_EMPTY, !.unwound = TRUE]

\* ereport(ERROR): control leaves the callback; the level ERROR aborts the
\* transaction of the host, not its process
Raise(m, errclass) ==
  [m EXCEPT !.raised = TRUE, !.errclass = errclass, !.elevel = "ERROR"]

\* a trap that reports a runtime error without unwinding first
ifxCatchExceptionsNoRewind(m, stackentry) ==
  IF m.raised THEN m
  ELSE LET errclass == ifxSetException(m) IN
    CASE errclass \in {"IFX_RT_ERROR", "IFX_ERROR", "IFX_ERROR_INVALID_NAME"} ->
           Raise(m, errclass)
      [] errclass = "IFX_ERROR_TABLE_NOT_FOUND" ->
           Raise(m, errclass)
      [] OTHER ->
           ifxPushCallstack(m, stackentry)

ifxCatchExceptions(m, stackentry) ==
  IF m.raised THEN m
  ELSE LET errclass == ifxSetException(m) IN
    CASE errclass = "IFX_RT_ERROR" ->
           Raise(ifxRewindCallstack(m), errclass)
      [] errclass \in {"IFX_ERROR", "IFX_ERROR_INVALID_NAME"} ->
           Raise(m, errclass)
      [] errclass = "IFX_ERROR_TABLE_NOT_FOUND" ->
           Raise(m, errclass)
      [] OTHER ->
           \* IFX_SUCCESS, and IFX_WARNING, IFX_NOT_FOUND and any other class
           ifxPushCallstack(m, stackentry)

\* an ERROR the callback reports itself after unwinding
ifxRewindAndError(m, failed) ==
  IF m.raised \/ ~failed THEN m
  ELSE Raise(ifxRewindCallstack(m), "LOCAL")

\* the row identity of the fetched row: a NULL one is an ERROR
ifxGetRowIdForTuple(m, isnull) ==
  IF m.raised \/ ~isnull THEN m
  ELSE Raise(m, "LOCAL")

(***************************************************************************)
(* The outcomes of the remote calls of one callback: call number failAt    *)
(* (0: none) answers failClass, every other call answers okClass (a        *)
(* warning on every call, or on none).                                     *)
(***************************************************************************)
Scripts(n) ==
  {sc \in [failAt : 0..n, failClass : ErrClasses, okClass : OkClasses] :
     /\ sc.failAt = 0 => sc.failClass = "IFX_ERROR"
     /\ sc.failAt # 0 => sc.okClass = "IFX_SUCCESS"}

Out(sc, i) == IF sc.failAt = i THEN sc.failClass ELSE sc.okClass

\* the text of the scan statement: the statement of a scan that backs an
\* UPDATE or a DELETE ends with FOR UPDATE
ifxPrepareParamsForScan(m) ==
  IF m.raised THEN m
  ELSE [m EXCEPT !.query =
          <<"SELECT", "*", "FROM", "tablename">>
            \o (IF m.cursorUsage = "IFX_UPDATE_CURSOR"
                  THEN <<"FOR", "UPDATE">> ELSE <<>>)]

\* the preparation that does not note the prepared statement on the stack
ifxPrepareCursorForScanUnnoted(m, enable_blobs, sc) ==
  LET p == ifxCatchExceptions(ifxPrepareQuery(m, Out(sc, 1)), {})
      b == IF enable_blobs /\ ~p.raised
             THEN [p EXCEPT !.cursorUsage = "IFX_DEFAULT_CURSOR"]
             ELSE p
  IN ifxCatchExceptions(ifxDeclareCursorForPrepared(b, Out(sc, 2)),
                        IFX_STACK_DECLARE)

ifxPrepareCursorForScan(m, enable_blobs, sc) ==
  LET p == ifxCatchExceptions(ifxPrepareQuery(m, Out(sc, 1)), IFX_STACK_PREPARE)
      b == IF enable_blobs /\ ~p.raised
             THEN [p EXCEPT !.cursorUsage = "IFX_DEFAULT_CURSOR"]
             ELSE p
  IN ifxCatchExceptions(ifxDeclareCursorForPrepared(b, Out(sc, 2)),
                        IFX_STACK_DECLARE)

\* the preparation of a modify statement that does not note the prepared
\* statement on the stack
ifxPrepareModifyQueryUnnoted(m, cmd, sc) ==
  LET p == ifxCatchExceptions(ifxPrepareQuery(m, Out(sc, 1)), {})
  IN IF cmd = "CMD_INSERT"
       THEN ifxCatchExceptions(ifxDeclareCursorForPrepared(p, Out(sc, 2)),
                               IFX_STACK_DECLARE)
       ELSE p

ifxPrepareModifyQuery(m, cmd, sc) ==
  LET p == ifxCatchExceptions(ifxPrepareQuery(m, Out(sc, 1)), IFX_STACK_PREPARE)
  IN IF cmd = "CMD_INSERT"
       THEN ifxCatchExceptions(ifxDeclareCursorForPrepared(p, Out(sc, 2)),
                               IFX_STACK_DECLARE)
       ELSE p

\* the executor state takes the statement data of the serialized plan
ifxDeserializeFdwData(m, plan_values) ==
  IF m.raised THEN m
  ELSE [m EXCEPT !.cs = plan_values.call_stack,
                 !.before = plan_values.call_stack,
                 !.query = plan_values.query,
                 !.ref = plan_values.refid,
                 !.cursorUsage = plan_values.cursorUsage]

\* a fetch that goes on to the next row whether or not a re-scan was
\* requested
ifxFetchTupleNoRestart(m, rescan, sc, eof) ==
  ifxFetchRowFromCursor(m, IF eof /\ sc.failAt # 3 THEN "IFX_NOT_FOUND"
                                                   ELSE Out(sc, 3))

\* eof: the result set is exhausted
ifxFetchTuple(m, rescan, sc, eof) ==
  LET fetched == IF eof /\ sc.failAt # 3 THEN "IFX_NOT_FOUND" ELSE Out(sc, 3)
  IN IF rescan
       THEN IF m.cursorUsage = "IFX_SCROLL_CURSOR"
              THEN ifxFetchFirstRowFromCursor(m, fetched)
              ELSE LET c == ifxCatchExceptions(ifxCloseCursor(m, Out(sc, 1)), {})
                       o == ifxCatchExceptions(
                              ifxOpenCursorForPrepared(c, Out(sc, 2)), {})
                   IN ifxFetchRowFromCursor(o, fetched)
       ELSE ifxFetchRowFromCursor(m, fetched)

(***************************************************************************)
(* Session setup.                                                          *)
(***************************************************************************)
\* CONNECT ... AS name
ifxCreateConnectionXact(m, status) ==
  IF status = "IFX_CONNECTION_ERROR" THEN m
  ELSE [m EXCEPT !.est[m.key] = TRUE, !.cur = m.key]

\* SET CONNECTION name: makes an established session the current one
ifxSetConnection(m, status) ==
  IF status = "IFX_CONNECTION_ERROR" THEN m
  ELSE IF ~m.est[m.key] THEN [m EXCEPT !.feasible = FALSE]
  ELSE [m EXCEPT !.cur = m.key]

\* BEGIN WORK on the session of the entry
ifxStartTransaction(c, k) == [c EXCEPT ![k].tx_in_progress = 1]

\* BEGIN WORK and the SAVEPOINTs up to the nest level of the host that the
\* session does not have yet
ifxStartTransactionLevel(c, k, xact_level) ==
  [c EXCEPT ![k].tx_in_progress = IF @ < xact_level THEN xact_level ELSE @]

\* RELEASE SAVEPOINT / ROLLBACK TO SAVEPOINT of a nest level: the session
\* is back at the level below; a call the server rejects changes nothing
ifxCommitTransaction(c, k, subXactLevel, rejected) ==
  IF rejected THEN c ELSE [c EXCEPT ![k].tx_in_progress = subXactLevel - 1]

ifxRollbackTransaction(c, k, subXactLevel, rejected) ==
  IF rejected THEN c ELSE [c EXCEPT ![k].tx_in_progress = subXactLevel - 1]

\* the number of sessions with a transaction in progress
ifxXactInProgress(c) ==
  Cardinality({k \in DOMAIN c : c[k].present /\ c[k].tx_in_progress > 0})

\* tx: the database has transactions and one could be started
ifxSetupConnection(c, m, status, tx) ==
  LET conn_cached == c[m.key].present
      c1 == ifxConnCache_add(c, m.key)
      m1 == IF ~conn_cached THEN ifxCreateConnectionXact(m, status)
                            ELSE ifxSetConnection(m, status)
  IN IF status = "IFX_CONNECTION_ERROR"
       THEN [cache |-> ifxConnCache_rm(c1, m.key),
             m     |-> [Raise(m1, "CONNECTION") EXCEPT !.connfail = TRUE]]
       ELSE [cache |-> IF tx THEN ifxStartTransaction(c1, m.key) ELSE c1,
             m     |-> m1]

\* the status check of the executor callbacks
ifxCheckConnection(m, status) ==
  IF status \notin {"IFX_CONNECTION_OK", "IFX_CONNECTION_WARN"}
    THEN [Raise(m, "CONNECTION") EXCEPT !.connfail = TRUE]
    ELSE m

(***************************************************************************)
(* Predicate pushdown: the walker over the filter clauses (ifx_conv.c)     *)
(* and ifxFilterQuals (ifx_fdw.c).  An expression node is a record         *)
(* [kind, name, type, varno, varlevelsup, args]: kind is the node tag,     *)
(* name the column, value, function, boolean or null test kind or the      *)
(* operator id, type the type oid of a Var, Const or RelabelType, args the *)
(* child nodes.  SQL text is a sequence of tokens.                         *)
(***************************************************************************)
MaxClauses == 2

\* baserel->relid of the foreign table
foreign_rtid == 1

InvalidOid == "InvalidOid"

Node(kind, name, type, varno, args) ==
  [kind |-> kind, name |-> name, type |-> type, varno |-> varno,
   varlevelsup |-> 0, useOr |-> TRUE, args |-> args]

\* the rows of pg_operator the filters refer to
pg_operator ==
  [eq     |-> [oprname |-> "=",  oprnamespace |-> "pg_catalog"],
   gt     |-> [oprname |-> ">",  oprnamespace |-> "pg_catalog"],
   ne     |-> [oprname |-> "<>", oprnamespace |-> "pg_catalog"],
   regex  |-> [oprname |-> "~",  oprnamespace |-> "pg_catalog"],
   usereq |-> [oprname |-> "=",  oprnamespace |-> "public"]]

\* the mapping by name alone, whatever the namespace of the operator
mapPushdownOperatorAnyNamespace(oprid) ==
  LET oprname == pg_operator[oprid].oprname
  IN CASE oprname = ">=" -> "IFX_OPR_GE"
       [] oprname = "<=" -> "IFX_OPR_LE"
       [] oprname = "<"  -> "IFX_OPR_LT"
       [] oprname = ">"  -> "IFX_OPR_GT"
       [] oprname = "="  -> "IFX_OPR_EQUAL"
       [] oprname = "<>" -> "IFX_OPR_NEQUAL"
       [] oprname = "~~" -> "IFX_OPR_LIKE"
       [] OTHER          -> "IFX_OPR_NOT_SUPPORTED"

mapPushdownOperator(oprid) ==
  LET oprForm == pg_operator[oprid]
      oprname == oprForm.oprname
  IN IF oprForm.oprnamespace # "pg_catalog" THEN "IFX_OPR_NOT_SUPPORTED"
     ELSE CASE oprname = ">=" -> "IFX_OPR_GE"
            [] oprname = "<=" -> "IFX_OPR_LE"
            [] oprname = "<"  -> "IFX_OPR_LT"
            [] oprname = ">"  -> "IFX_OPR_GT"
            [] oprname = "="  -> "IFX_OPR_EQUAL"
            [] oprname = "<>" -> "IFX_OPR_NEQUAL"
            [] oprname = "~~" -> "IFX_OPR_LIKE"
            [] OTHER          -> "IFX_OPR_NOT_SUPPORTED"

getIfxOperatorIdent(type) ==
  CASE type = "IFX_OPR_GE"     -> ">="
    [] type = "IFX_OPR_LE"     -> "<="
    [] type = "IFX_OPR_LT"     -> "<"
    [] type = "IFX_OPR_GT"     -> ">"
    [] type = "IFX_OPR_EQUAL"  -> "="
    [] type = "IFX_OPR_NEQUAL" -> "<>"
    [] type = "IFX_OPR_LIKE"   -> "LIKE"

isCompatibleForPushdown(typeOid) ==
  typeOid \notin {"INTERVALOID", "TIMESTAMPOID", "TIMEOID", "TIMESTAMPTZOID",
                  "TIMETZOID", "DATEOID"}

\* the text value that does not fit into IFX_MAX_VARCHAR_LEN bytes
LongText == "long"

\* ifxConvertNodeConst: *supported, and the type of the converted node
ifxConvertNodeConst(oldNode) ==
  CASE oldNode.type = "BPCHAROID" ->
         [supported |-> TRUE, node |-> [oldNode EXCEPT !.type = "VARCHAROID"]]
    [] oldNode.type = "TEXTOID" ->
         IF oldNode.name = LongText
           THEN [supported |-> FALSE, node |-> oldNode]
           ELSE [supported |-> TRUE,
                 node |-> [oldNode EXCEPT !.type = "VARCHAROID"]]
    [] OTHER -> [supported |-> TRUE, node |-> oldNode]

quote_literal_cstr(v) == <<"'", v, "'">>

\* a literal written without quotes whatever its type
getConstValueUnquoted(constNode) == <<constNode.name>>

getConstValue(constNode) ==
  IF constNode.type \in {"TEXTOID", "BPCHAROID", "VARCHAROID", "BYTEAOID",
                         "TIMEOID", "TIMETZOID", "TIMESTAMPOID", "DATEOID",
                         "TIMESTAMPTZOID", "INTERVALOID"}
    THEN quote_literal_cstr(constNode.name)
    ELSE <<constNode.name>>

\* deparse_expression of ruleutils, for the nodes that reach it: a column
\* reference, a relabelled column reference, a null test on a column
deparse_expression(node) ==
  CASE node.kind = "Var" -> <<node.name>>
    [] node.kind = "RelabelType" -> <<node.args[1].name>>
    [] node.kind = "NullTest" ->
         <<node.args[1].name>>
           \o (IF node.name = "IS_NULL" THEN <<"IS", "NULL">>
                                        ELSE <<"IS", "NOT", "NULL">>)

\* an IfxPushdownOprInfo as the walker initializes it
PushdownOprInfo(type, deparsetype, num_args, expr) ==
  [type |-> type, expr_string |-> <<>>, deparsetype |-> deparsetype,
   num_args |-> num_args, arg_idx |-> 0, expr |-> expr]

NoExpr == Node("NULL", "", InvalidOid, 0, <<>>)

\* a cooked operator that is never marked as finished
ifxAppendCookedOpExprUnfinished(info, node) ==
  IF info.deparsetype = "IFX_MAKE_COOKED_EXPR"
    THEN [info EXCEPT !.expr.args = Append(@, node), !.arg_idx = @ + 1]
    ELSE [info EXCEPT !.arg_idx = @ + 1]

\* a copy of the operator with the operands analysed before and the current
\* one; in progress while operands remain
ifxMakeCookedOpExpr(info, old, append) ==
  [info EXCEPT
     !.arg_idx = @ + 1,
     !.deparsetype = IF info.num_args > info.arg_idx + 1
                       THEN "IFX_MAKE_COOKED_EXPR" ELSE "IFX_COOKED_EXPR",
     !.expr = [old EXCEPT !.args =
                 Append(IF info.arg_idx < info.num_args
                          THEN SubSeq(old.args, 1, info.arg_idx) ELSE <<>>,
                        append)]]

\* the next operand of an operator in progress; finished with the last one
ifxAppendCookedOpExpr(info, node) ==
  IF info.deparsetype = "IFX_MAKE_COOKED_EXPR"
    THEN [info EXCEPT
            !.expr.args = Append(@, node),
            !.arg_idx = @ + 1,
            !.deparsetype = IF info.num_args = info.arg_idx + 1
                              THEN "IFX_COOKED_EXPR" ELSE @]
    ELSE [info EXCEPT !.arg_idx = @ + 1]

ifxCookExpr(info, operexpr, operandexpr) ==
  CASE info.deparsetype = "IFX_DEPARSED_EXPR" ->
         ifxMakeCookedOpExpr(info, operexpr, operandexpr)
    [] info.deparsetype = "IFX_MAKE_COOKED_EXPR" ->
         ifxAppendCookedOpExpr(info, operandexpr)
    [] OTHER -> info

IFX_MARK_PREDICATE_NOT_SUPPORTED(info) ==
  [info EXCEPT !.type = "IFX_OPR_NOT_SUPPORTED"]

IFX_MARK_PREDICATE_ELEM(info, context) ==
  [context EXCEPT !.predicates = Append(@, info), !.count = @ + 1]

IFX_MARK_PREDICATE_BOOL(info, context) ==
  [context EXCEPT !.predicates = Append(@, info), !.count = @ + 1]

\* rewriteInExprContext: the array members as Const nodes of the type of
\* the column reference, or of the relabel target when there is one
rewriteInExprContext(arrayConst, cxt) ==
  LET ctype == IF cxt.target_type # InvalidOid THEN cxt.target_type
                                               ELSE cxt.colref.type
  IN [cxt EXCEPT !.elements =
        @ \o [i \in 1..Len(arrayConst.args) |->
                [arrayConst.args[i] EXCEPT !.type = ctype]]]

\* the element literals written one after the other
RECURSIVE InElementsUnseparated(_, _)
InElementsUnseparated(elements, i) ==
  IF i > Len(elements) THEN <<>>
  ELSE (IF isCompatibleForPushdown(elements[i].type)
          THEN getConstValue(elements[i]) ELSE <<>>)
       \o InElementsUnseparated(elements, i + 1)

RECURSIVE InElements(_, _)
InElements(elements, i) ==
  IF i > Len(elements) THEN <<>>
  ELSE LET visited == Cardinality({j \in 1..i :
                        isCompatibleForPushdown(elements[j].type)})
       IN (IF isCompatibleForPushdown(elements[i].type)
             THEN getConstValue(elements[i])
                    \o (IF visited < Len(elements) THEN <<",">> ELSE <<>>)
             ELSE <<>>)
          \o InElements(elements, i + 1)

deparse_node_list_for_InExpr(in_cxt, info) ==
  IF \/ info.deparsetype # "IFX_COOKED_EXPR"
     \/ info.type # "IFX_OPR_IN"
     \/ Len(in_cxt.elements) <= 0
    THEN IFX_MARK_PREDICATE_NOT_SUPPORTED(info)
    ELSE LET text == <<in_cxt.colref.name, "IN", "(">>
                       \o InElements(in_cxt.elements, 1) \o <<")">>
             bad == \E i \in 1..Len(in_cxt.elements) :
                      \/ in_cxt.elements[i].kind # "Const"
                      \/ ~isCompatibleForPushdown(in_cxt.elements[i].type)
         IN [info EXCEPT
               !.type = IF bad THEN "IFX_OPR_NOT_SUPPORTED" ELSE "IFX_OPR_IN",
               !.expr_string = text]

BoolInfo(boolop) ==
  LET info == PushdownOprInfo("", "IFX_DEPARSED_EXPR", 0, NoExpr)
  IN CASE boolop = "AND_EXPR" ->
            [info EXCEPT !.type = "IFX_OPR_AND", !.expr_string = <<"AND">>]
       [] boolop = "OR_EXPR" ->
            [info EXCEPT !.type = "IFX_OPR_OR", !.expr_string = <<"OR">>]
       [] boolop = "NOT_EXPR" ->
            [info EXCEPT !.type = "IFX_OPR_NOT", !.expr_string = <<"NOT">>]

\* the operand loop of the ScalarArrayOpExpr branch; supported = FALSE is
\* the early return
RECURSIVE ScalarOperands(_, _, _)
ScalarOperands(args, i, in_cxt) ==
  IF i > Len(args) \/ ~in_cxt.supported THEN in_cxt
  ELSE LET scalar_operand == args[i]
           next ==
             CASE scalar_operand.kind = "RelabelType" ->
                    IF scalar_operand.args[1].kind # "Var"
                      THEN [in_cxt EXCEPT !.supported = FALSE]
                      ELSE [in_cxt EXCEPT
                              !.target_type = scalar_operand.type,
                              !.colref = scalar_operand.args[1]]
               [] scalar_operand.kind = "Var" ->
                    [in_cxt EXCEPT !.colref = scalar_operand]
               [] scalar_operand.kind = "Const" ->
                    rewriteInExprContext(scalar_operand, in_cxt)
               [] OTHER -> [in_cxt EXCEPT !.supported = FALSE]
       IN ScalarOperands(args, i + 1, next)

\* the operand switch of the OpExpr branch: operand_supported
OperandSupported(oprarg) ==
  CASE oprarg.kind = "Var" ->
         oprarg.varno = foreign_rtid /\ oprarg.varlevelsup = 0
    [] oprarg.kind = "Const" ->
         /\ isCompatibleForPushdown(oprarg.type)
         /\ ifxConvertNodeConst(oprarg).supported
    [] oprarg.kind = "RelabelType" -> oprarg.args[1].kind = "Var"
    [] OTHER -> FALSE

\* the operand an operator is cooked with: the column reference, the
\* converted literal, the column reference under a relabel
CookedOperand(oprarg) ==
  CASE oprarg.kind = "Const" -> ifxConvertNodeConst(oprarg).node
    [] oprarg.kind = "RelabelType" -> oprarg.args[1]
    [] OTHER -> oprarg

\* the operand loop of the OpExpr branch when every operand is supported
RECURSIVE CookOperands(_, _, _)
CookOperands(node, i, info) ==
  IF i > Len(node.args) THEN info
  ELSE CookOperands(node, i + 1,
                    ifxCookExpr(info, node, CookedOperand(node.args[i])))

\* deparse_predicate_node: info->expr_string
deparse_predicate_node(info, node) ==
  IF Len(node.args) = 1
    THEN [info EXCEPT !.expr_string = deparse_expression(node)]
    ELSE LET oprarg_left  == node.args[1]
             oprarg_right == node.args[2]
             left  == IF oprarg_left.kind = "Const"
                        THEN getConstValue(oprarg_left)
                        ELSE deparse_expression(oprarg_left)
             right == IF oprarg_right.kind = "Const"
                        THEN getConstValue(oprarg_right)
                        ELSE deparse_expression(oprarg_right)
         IN [info EXCEPT !.expr_string =
               left \o <<getIfxOperatorIdent(info.type)>> \o right]

\* the info of a supported comparison: cooked operand by operand, then
\* deparsed from the cooked expression
OpExprInfo(type, node) ==
  LET Deparsed(info) == deparse_predicate_node(info, info.expr)
  IN Deparsed(CookOperands(node, 1,
                PushdownOprInfo(type, "IFX_DEPARSED_EXPR", Len(node.args),
                                node)))

RECURSIVE ifx_predicate_tree_walker(_, _)
RECURSIVE WalkBoolArgs(_, _, _)

\* the loop over boolexpr->args of the BoolExpr branch
WalkBoolArgs(boolexpr, i, context) ==
  IF i > Len(boolexpr.args) THEN context
  ELSE LET c1 == ifx_predicate_tree_walker(boolexpr.args[i], context)
           c2 == IF i < Len(boolexpr.args)
                   THEN [IFX_MARK_PREDICATE_BOOL(BoolInfo(boolexpr.name), c1)
                           EXCEPT !.has_or_expr =
                                    @ \/ boolexpr.name = "OR_EXPR"]
                   ELSE c1
       IN WalkBoolArgs(boolexpr, i + 1, c2)

\* the context after the walk (the boolean the walker returns is not used
\* by its callers)
ifx_predicate_tree_walker(node, context) ==
  CASE node.kind = "BoolExpr" -> WalkBoolArgs(node, 1, context)
    [] node.kind = "ScalarArrayOpExpr" ->
         LET in_cxt == ScalarOperands(node.args, 1,
                         [colref |-> Node("NULL", "", InvalidOid, 0, <<>>),
                          target_type |-> InvalidOid, elements |-> <<>>,
                          supported |-> TRUE])
         IN IF ~in_cxt.supported
              THEN [context EXCEPT !.count_removed = @ + 1]
              ELSE IFX_MARK_PREDICATE_ELEM(
                     deparse_node_list_for_InExpr(in_cxt,
                       PushdownOprInfo("IFX_OPR_IN", "IFX_COOKED_EXPR", 0,
                                       NoExpr)),
                     context)
    [] node.kind = "NullTest" ->
         LET arg == node.args[1]
             operand_supported ==
               /\ arg.kind = "Var"
               /\ arg.varno = foreign_rtid
               /\ arg.varlevelsup = 0
             type == IF node.name = "IS_NULL" THEN "IFX_IS_NULL"
                                              ELSE "IFX_IS_NOT_NULL"
         IN IF node.type = "argisrow" THEN context
            ELSE IF ~operand_supported
              THEN [context EXCEPT !.count_removed = @ + 1]
              ELSE IFX_MARK_PREDICATE_ELEM(
                     deparse_predicate_node(
                       PushdownOprInfo(type, "IFX_DEPARSED_EXPR", 1, node),
                       node),
                     context)
    [] node.kind = "OpExpr" ->
         LET type == mapPushdownOperator(node.name)
         IN IF type # "IFX_OPR_NOT_SUPPORTED"
              THEN IF \E i \in 1..Len(node.args) :
                        ~OperandSupported(node.args[i])
                     THEN [context EXCEPT !.count_removed = @ + 2]
                     ELSE IFX_MARK_PREDICATE_ELEM(
                            OpExprInfo(type, node), context)
              ELSE [context EXCEPT !.count_removed = @ + 1]
    [] OTHER -> context

\* the loop of ifxFilterQuals over baserel->baserestrictinfo
RECURSIVE FilterLoop(_, _, _)
FilterLoop(quals, i, st) ==
  IF i > Len(quals) THEN st
  ELSE LET found == st.cxt.count
           c1 == ifx_predicate_tree_walker(quals[i], st.cxt)
           excl == IF found = c1.count THEN Append(st.excl, quals[i])
                                       ELSE st.excl
           c2 == IF i < Len(quals)
                   THEN IFX_MARK_PREDICATE_BOOL(BoolInfo("AND_EXPR"), c1)
                   ELSE c1
       IN FilterLoop(quals, i + 1, [cxt |-> c2, excl |-> excl])

\* the loop of ifxFilterQuals over the collected predicates; i as in the
\* code, from 0.  A piece of buf is what one appendStringInfo adds.
RECURSIVE BuildLoop(_, _, _, _)
BuildLoop(predicates, i, oprStr, buf) ==
  IF i >= Len(predicates) THEN buf
  ELSE LET info == predicates[i + 1]
       IN IF info.type = "IFX_OPR_NOT_SUPPORTED"
            THEN BuildLoop(predicates, i + 1, oprStr, buf)
          ELSE IF info.type \in {"IFX_OPR_OR", "IFX_OPR_AND", "IFX_OPR_NOT"}
            THEN BuildLoop(predicates, i + 1, info.expr_string, buf)
          ELSE BuildLoop(predicates, i + 1, oprStr,
                 buf \o (IF i > 1 THEN oprStr ELSE <<>>) \o info.expr_string)

ifxFilterQuals(quals) ==
  LET st == FilterLoop(quals, 1,
              [cxt |-> [predicates |-> <<>>, count |-> 0, count_removed |-> 0,
                        has_or_expr |-> FALSE],
               excl |-> <<>>])
      rejected == st.cxt.has_or_expr /\ st.cxt.count_removed > 0
  IN [predicate |-> IF rejected THEN <<>>
                    ELSE BuildLoop(st.cxt.predicates, 0, <<"AND">>, <<>>),
      excl_restrictInfo |-> st.excl,
      cxt |-> [count |-> st.cxt.count,
               count_removed |-> st.cxt.count_removed,
               has_or_expr |-> st.cxt.has_or_expr]]

VARIABLES
  cache,        \* ifxCache.connections: key -> [present, usage, tx_in_progress]
  established,  \* key -> the remote session of that name exists
  current,      \* the session remote calls go to (0: none)
  res,          \* scan -> what exists under the names of its statement
  phase,        \* scan -> "none" | "planned" | "running"
  skey,         \* scan -> connection name of its foreign table (0: none)
  plan,         \* scan -> serialized plan data (fdw_private)
  fest,         \* scan -> IfxFdwExecutionState of the running scan
  host,         \* "running" | "aborting" (an ERROR was raised)
  IfxCacheIsInitialized,
  lastOp,       \* what the last callback did (history)
  baserestrictinfo,   \* clauses of the filter on the foreign table
  predicate_pushdown, \* coninfo->predicate_pushdown
  predicate,          \* state->stmt_info.predicate, the pushed text
  excl_restrictInfo,  \* planState->excl_restrictInfo
  scan_clauses,       \* clauses the host evaluates on fetched rows
  pushdownCxt,        \* counters of the walker after the filter step
  qphase,             \* "quals" | "filtered" | "planned"
  item_coninfo,       \* conname -> {username, database, servername} stored
                      \* in the cache entry when it was created
  cacheOp,            \* what the last cache lookup or removal did (history)
  operation,          \* statement -> mstate->operation of a modify statement
  nestLevel,          \* GetCurrentTransactionNestLevel() of the host
  subxOp,             \* what the last sub-transaction callback did (history)
  modify,             \* the columns, the statement text and the bound
                      \* parameters of a modify statement
  ctid                \* the row identity of a fetched row on its way to
                      \* the parameter of an UPDATE or a DELETE

modVars == <<operation>>

subxVars == <<nestLevel, subxOp>>

execVars == <<cache, established, current, res, phase, skey, plan, fest, host,
              IfxCacheIsInitialized, lastOp>>

qualVars == <<baserestrictinfo, predicate_pushdown, predicate,
              excl_restrictInfo, scan_clauses, pushdownCxt, qphase>>

cacheVars == <<item_coninfo, cacheOp>>

paramVars == <<modify, ctid>>

restOfExec == <<qualVars, cacheVars, modVars, subxVars, paramVars>>
restOfQuals == <<execVars, cacheVars, modVars, subxVars, paramVars>>

vars == <<execVars, qualVars, cacheVars, modVars, subxVars, paramVars>>

\* enable_blobs option of the foreign table a scan reads
EnableBlobs(s) == s = 2

NoPlan == [call_stack |-> IFX_STACK_EMPTY, refid |-> 0,
           cursorUsage |-> "IFX_SCROLL_CURSOR", query |-> <<>>]
NoState == [call_stack |-> IFX_STACK_EMPTY, rescan |-> FALSE,
            explain_only |-> FALSE]
NoOp == [op |-> "none", scan |-> 0, key |-> 0, raised |-> FALSE,
         errclass |-> "", stack |-> {}, held |-> {}, unheld |-> FALSE,
         unwound |-> FALSE, wrong |-> FALSE, connfail |-> FALSE,
         pushes |-> <<>>, log |-> <<>>, before |-> {}, fetch |-> "",
         slot |-> "", elevel |-> ""]

\* no modify statement was planned
NoModify == [step |-> "none", operation |-> "CMD_SELECT", attisdropped |-> <<>>,
             updatedCols |-> {}, disable_rowid |-> FALSE,
             affectedAttrNums |-> <<>>, query |-> <<>>, pgAttrDefs |-> <<>>,
             ifxAttrCount |-> 0, sqlda |-> <<>>, raised |-> FALSE]

\* no row identity was fetched
NoCtid == [step |-> "none", rowid |-> 0, ip_blkid |-> [bi_hi |-> 0, bi_lo |-> 0],
           ip_posid |-> 0, bound |-> 0]

ParamsIdle == modify = NoModify /\ ctid = NoCtid

\* the idle value of the history of the sub-transaction callback
NoSubXactOp == [event |-> "none", curlevel |-> 0, before |-> <<>>,
                touched |-> {}, warned |-> {}, failed |-> {}]

\* no scan is planned, no session exists, the host is in a top-level
\* transaction
ScansIdle ==
  /\ nestLevel = 1
  /\ subxOp = NoSubXactOp
  /\ established = [k \in Keys |-> FALSE]
  /\ current = 0
  /\ res = [s \in Scans |-> {}]
  /\ phase = [s \in Scans |-> "none"]
  /\ skey = [s \in Scans |-> 0]
  /\ plan = [s \in Scans |-> NoPlan]
  /\ fest = [s \in Scans |-> NoState]
  /\ host = "running"
  /\ IfxCacheIsInitialized = FALSE
  /\ lastOp = NoOp
  /\ operation = [s \in Scans |-> "CMD_SELECT"]

ExecInit ==
  /\ cache = [k \in Keys |-> NoEntry]
  /\ ScansIdle

\* makeIfxFdwExecutionState / ifxStatementInfoInit: the handle of a
\* statement on connection k and what exists under its names
Machine(k, refid, cursorUsage, call_stack, held) ==
  [key |-> k, ref |-> refid, cursorUsage |-> cursorUsage, cs |-> call_stack,
   res |-> held, cur |-> current, est |-> established,
   last |-> "IFX_SUCCESS", raised |-> FALSE, errclass |-> "",
   unheld |-> FALSE, unwound |-> FALSE, wrong |-> FALSE, connfail |-> FALSE,
   pushes |-> <<>>, log |-> <<>>, before |-> call_stack, query |-> <<>>,
   fetch |-> "", slot |-> "", elevel |-> "", feasible |-> TRUE]

History(name, s, m) ==
  [op |-> name, scan |-> s, key |-> m.key, raised |-> m.raised,
   errclass |-> m.errclass, stack |-> m.cs, held |-> m.res,
   unheld |-> m.unheld, unwound |-> m.unwound, wrong |-> m.wrong,
   connfail |-> m.connfail, pushes |-> m.pushes, log |-> m.log,
   before |-> m.before, fetch |-> m.fetch, slot |-> m.slot,
   elevel |-> m.elevel]

\* what a callback leaves behind on the remote side and in the host
Leave(name, s, m) ==
  /\ m.feasible
  /\ established' = m.est
  /\ current' = m.cur
  /\ res' = [res EXCEPT ![s] = m.res]
  /\ host' = IF m.raised THEN "aborting" ELSE host
  /\ lastOp' = History(name, s, m)

(***************************************************************************)
(* Planner callbacks.                                                      *)
(***************************************************************************)
\* ifxSerializePlanData: the statement data becomes the plan's fdw_private
ifxGetForeignPlan(m) ==
  [call_stack |-> m.cs, refid |-> m.ref, cursorUsage |-> m.cursorUsage,
   query |-> m.query]

\* ifxGetForeignRelSize sets the statement up on the remote side, and
\* ifxGetForeignPlan, which the planner calls next, serializes it
ifxGetForeignRelSize(s, k, cmd, status, tx, sc) ==
  /\ host = "running"
  /\ phase[s] = "none"
  /\ cache[k].present => cache[k].usage < MaxUsage
  /\ LET m0 == Machine(k, 0, "IFX_SCROLL_CURSOR", IFX_STACK_EMPTY, {})
         su == ifxSetupConnection(cache, m0, status, tx)
         m1 == IF su.m.raised THEN su.m
               ELSE [su.m EXCEPT
                       !.ref = su.cache[k].usage,
                       !.cursorUsage = IF cmd \in {"CMD_UPDATE", "CMD_DELETE"}
                                         THEN "IFX_UPDATE_CURSOR"
                                         ELSE "IFX_SCROLL_CURSOR"]
         m2 == ifxPrepareCursorForScan(ifxPrepareParamsForScan(m1),
                                       EnableBlobs(s), sc)
     IN /\ Leave("Plan", s, m2)
        /\ cache' = su.cache
        /\ IfxCacheIsInitialized' = TRUE
        /\ IF m2.raised
             THEN UNCHANGED <<phase, skey, plan>>
             ELSE /\ phase' = [phase EXCEPT ![s] = "planned"]
                  /\ skey' = [skey EXCEPT ![s] = k]
                  /\ plan' = [plan EXCEPT ![s] = ifxGetForeignPlan(m2)]
        /\ UNCHANGED <<restOfExec, fest>>

(***************************************************************************)
(* Executor callbacks.                                                     *)
(***************************************************************************)
ifxBeginForeignScan(s, status, sc, explain_only, failed) ==
  /\ host = "running"
  /\ phase[s] = "planned"
  /\ cache[skey[s]].present => cache[skey[s]].usage < MaxUsage
  /\ LET k  == skey[s]
         conn_cached == cache[k].present
         m0 == Machine(k, -1, "IFX_SCROLL_CURSOR", IFX_STACK_EMPTY, res[s])
         m1 == IF conn_cached THEN ifxSetConnection(m0, status) ELSE m0
         m2 == ifxCheckConnection(m1, status)
         m3 == ifxDeserializeFdwData(m2, plan[s])
         m4 == IF m3.cs = IFX_STACK_EMPTY
                 THEN ifxPrepareCursorForScan(m3, EnableBlobs(s), sc)
                 ELSE m3
         m5 == ifxCatchExceptions(ifxDescribeAllocatorByName(m4, Out(sc, 3)),
                                  IFX_STACK_ALLOCATE \cup IFX_STACK_DESCRIBE)
         m6 == ifxCatchExceptions(ifxDescriptorColumnCount(m5, Out(sc, 4)), {})
         m7 == ifxRewindAndError(m6, failed)
         m8 == ifxCatchExceptions(ifxOpenCursorForPrepared(m7, Out(sc, 5)),
                                  IFX_STACK_OPEN)
         m  == IF explain_only THEN m4 ELSE m8
     IN /\ Leave("Begin", s, m)
        /\ cache' = ifxConnCache_add(cache, k)
        /\ IF m.raised
             THEN UNCHANGED <<phase, fest>>
             ELSE /\ phase' = [phase EXCEPT ![s] = "running"]
                  /\ fest' = [fest EXCEPT ![s] =
                                [call_stack |-> m.cs, rescan |-> FALSE,
                                 explain_only |-> explain_only]]
        /\ UNCHANGED <<restOfExec, skey, plan, IfxCacheIsInitialized>>
\* the statement data of a running scan is the one ifxBeginForeignScan took
\* from the plan; its call stack is the one the executor state carries
\* the end of the scan is never seen
ifxScanEndNever(errclass) == FALSE

\* the fetch found no row: the scan is at its end
ifxScanEnd(errclass) == errclass = "IFX_NOT_FOUND"

\* what ifxIterateForeignScan does with the outcome errclass of the fetch:
\* at the end of the scan it returns the empty slot; otherwise it traps the
\* outcome, converts the values of the row (ifxGetValuesFromTuple), takes
\* its row identity and returns the slot with the row
ifxIterateForeignScan_slot(m, errclass, failed, rowid_null) ==
  LET Trapped(x) == IF errclass = "IFX_SUCCESS" THEN x
                    ELSE ifxCatchExceptions(x, {})
      Assembled(x) ==
        ifxGetRowIdForTuple(ifxRewindAndError(Trapped(x), failed), rowid_null)
      Slot(x) == [x EXCEPT
                    !.fetch = errclass,
                    !.slot = IF x.raised THEN ""
                             ELSE IF ifxScanEnd(errclass) THEN "empty"
                             ELSE "row"]
  IN IF ifxScanEnd(errclass) THEN Slot(m) ELSE Slot(Assembled(m))

\* failed: a fetched value cannot be converted; rowid_null: the row
\* identity fetched with the row is NULL
ifxIterateForeignScan(s, status, sc, eof, failed, rowid_null) ==
  /\ host = "running"
  /\ phase[s] = "running"
  /\ ~fest[s].explain_only
  /\ cache[skey[s]].present => cache[skey[s]].usage < MaxUsage
  /\ LET k  == skey[s]
         conn_cached == cache[k].present
         m0 == Machine(k, plan[s].refid, plan[s].cursorUsage,
                       fest[s].call_stack, res[s])
         m1 == IF conn_cached THEN ifxSetConnection(m0, status) ELSE m0
         m2 == ifxCheckConnection(m1, status)
         m3 == ifxFetchTuple(m2, fest[s].rescan, sc, eof)
         m7 == ifxIterateForeignScan_slot(m3, ifxSetException(m3), failed,
                                          rowid_null)
     IN /\ Leave("Iterate", s, m7)
        /\ cache' = ifxConnCache_add(cache, k)
        /\ IF m7.raised
             THEN UNCHANGED fest
             ELSE fest' = [fest EXCEPT ![s].call_stack = m7.cs,
                                       ![s].rescan = FALSE]
        /\ UNCHANGED <<restOfExec, phase, skey, plan, IfxCacheIsInitialized>>

ifxReScanForeignScan(s) ==
  /\ host = "running"
  /\ phase[s] = "running"
  /\ fest' = [fest EXCEPT ![s].rescan = TRUE]
  /\ lastOp' = [NoOp EXCEPT !.op = "ReScan", !.scan = s, !.key = skey[s]]
  /\ UNCHANGED <<restOfExec, cache, established, current, res, phase, skey, plan, host,
                 IfxCacheIsInitialized>>

ifxEndForeignScan(s) ==
  /\ host = "running"
  /\ phase[s] = "running"
  /\ LET m0 == Machine(skey[s], plan[s].refid, plan[s].cursorUsage,
                       fest[s].call_stack, res[s])
         m1 == ifxDeserializeFdwData(m0, plan[s])
         m2 == ifxRewindCallstack(m1)
     IN /\ Leave("End", s, m2)
        \* ifxSetSerializedInt16Field(plan_values, SERIALIZED_CALLSTACK, ...)
        /\ plan' = [plan EXCEPT ![s].call_stack = m2.cs]
        /\ phase' = [phase EXCEPT ![s] = "planned"]
        /\ fest' = [fest EXCEPT ![s] = NoState]
        /\ UNCHANGED <<restOfExec, cache, skey, IfxCacheIsInitialized>>

(***************************************************************************)
(* Administrative close of a cached connection.                            *)
(***************************************************************************)
\* a close that never looks at the transaction state of the entry
ifxCloseRefusedNever(entry) == FALSE

\* the guard that refuses to close a connection inside a transaction
ifxCloseRefused(entry) == entry.tx_in_progress > 0

\* DISCONNECT name: the session and everything on it is gone; a descriptor
\* area is memory of the client library and stays
ifxDisconnectConnection(k) ==
  /\ established' = [established EXCEPT ![k] = FALSE]
  /\ current' = IF current = k THEN 0 ELSE current
  /\ res' = [s \in Scans |->
               IF skey[s] = k THEN res[s] \cap {"ALLOCATE"} ELSE res[s]]

\* disconnected: DISCONNECT did not answer IFX_ERROR
ifxCloseConnection(k, disconnected) ==
  /\ host = "running"
  /\ LET found  == ifxConnCache_exists(cache, k)
         closed == /\ IfxCacheIsInitialized
                   /\ found
                   /\ ~ifxCloseRefused(cache[k])
     IN /\ cache' = IF closed THEN ifxConnCache_rm(cache, k) ELSE cache
        /\ IF closed /\ disconnected
             THEN /\ established[k]
                  /\ ifxDisconnectConnection(k)
             ELSE UNCHANGED <<established, current, res>>
        /\ host' = IF closed /\ disconnected THEN host ELSE "aborting"
        /\ lastOp' = [NoOp EXCEPT !.op = "Close", !.key = k,
                                  !.raised = ~(closed /\ disconnected)]
  /\ UNCHANGED <<restOfExec, phase, skey, plan, fest, IfxCacheIsInitialized>>

(***************************************************************************)
(* Transaction callbacks.  The callback visits every cached connection     *)
(* with a transaction in progress (in ascending order of the key here) and *)
(* finalizes it; failed are the connections whose COMMIT or ROLLBACK the   *)
(* server rejects.                                                         *)
(***************************************************************************)
InTransaction(c) == {k \in Keys : c[k].present /\ c[k].tx_in_progress >= 1}

First(S) == CHOOSE k \in S : \A j \in S : k <= j
Last(S)  == CHOOSE k \in S : \A j \in S : j <= k

\* COMMIT WORK / ROLLBACK WORK on the sessions of the entries K
ifxXactFinalize(c, K) ==
  [k \in Keys |-> IF k \in K THEN [c[k] EXCEPT !.tx_in_progress = 0] ELSE c[k]]

\* the level of what ifxXactFinalize reports for one session: unreachable,
\* the session cannot be made current; failed, the server rejects the
\* COMMIT or the ROLLBACK
ifxXactFinalizeLevel(action, connection_error_ok, unreachable, failed) ==
  IF unreachable /\ connection_error_ok THEN "ERROR"
  ELSE IF action = "IFX_TX_COMMIT" /\ failed THEN "ERROR"
  ELSE IF unreachable \/ (action = "IFX_TX_ROLLBACK" /\ failed) THEN "WARNING"
  ELSE ""

\* a callback that finalizes an abort the way it finalizes a commit
ifx_fdw_xact_callback_internalStrict(event, unreachable, failed) ==
  CASE event = "XACT_EVENT_PRE_COMMIT" ->
         ifxXactFinalizeLevel("IFX_TX_COMMIT", TRUE, unreachable, failed)
    [] event = "XACT_EVENT_ABORT" ->
         ifxXactFinalizeLevel("IFX_TX_ROLLBACK", TRUE, unreachable, failed)

ifx_fdw_xact_callback_internal(event, unreachable, failed) ==
  CASE event = "XACT_EVENT_PRE_COMMIT" ->
         ifxXactFinalizeLevel("IFX_TX_COMMIT", TRUE, unreachable, failed)
    [] event = "XACT_EVENT_ABORT" ->
         ifxXactFinalizeLevel("IFX_TX_ROLLBACK", FALSE, unreachable, failed)

\* the highest level reported while the sessions were visited
HighestLevel(levels) ==
  IF "ERROR" \in levels THEN "ERROR"
  ELSE IF "WARNING" \in levels THEN "WARNING" ELSE ""

\* XACT_EVENT_PRE_COMMIT: the first commit that fails reports an ERROR
ifx_fdw_xact_callback_commit(failed) ==
  /\ host = "running"
  /\ \A s \in Scans : phase[s] \in {"none", "planned"}
  /\ InTransaction(cache) # {}
  /\ failed \subseteq InTransaction(cache)
  /\ LET txs == InTransaction(cache)
         done == IF failed = {} THEN txs
                 ELSE {k \in txs : k < First(failed)}
     IN /\ cache' = ifxXactFinalize(cache, done)
        /\ current' = IF failed # {} THEN First(failed) ELSE Last(txs)
        /\ host' = IF failed # {} THEN "aborting" ELSE host
        /\ lastOp' = [NoOp EXCEPT !.op = "Commit", !.raised = (failed # {})]
  /\ UNCHANGED <<restOfExec, established, res, phase, skey, plan, fest,
                 IfxCacheIsInitialized>>

\* XACT_EVENT_ABORT: a session that cannot be made current (unreachable)
\* and a rollback that fails (failed) are reported with the level the
\* callback chooses; an ERROR would abort again.  The host throws away the
\* executor state of the failed statement.
ifx_fdw_xact_callback_abort(unreachable, failed) ==
  /\ host = "aborting"
  /\ failed \subseteq InTransaction(cache)
  /\ unreachable \subseteq InTransaction(cache)
  /\ LET txs == InTransaction(cache)
         elevel == HighestLevel(
                     { ifx_fdw_xact_callback_internal(
                         "XACT_EVENT_ABORT", k \in unreachable, k \in failed) :
                       k \in txs })
     IN /\ cache' = ifxXactFinalize(cache, txs \ failed)
        /\ current' = IF txs \ unreachable # {} THEN Last(txs \ unreachable)
                                                ELSE current
        /\ host' = IF elevel = "ERROR" THEN "aborting" ELSE "running"
        /\ lastOp' = [NoOp EXCEPT !.op = "Abort",
                                  !.raised = (elevel = "ERROR"),
                                  !.connfail = (unreachable # {}),
                                  !.elevel = elevel]
  /\ phase' = [s \in Scans |-> IF phase[s] = "running" THEN "planned"
                                                       ELSE phase[s]]
  /\ fest' = [s \in Scans |-> NoState]
  /\ UNCHANGED <<restOfExec, established, res, skey, plan, IfxCacheIsInitialized>>

\* the host drops a plan it no longer needs; what the statement left on
\* the remote side stays there under names no later statement is given
DropPlan(s) ==
  /\ host = "running"
  /\ phase[s] = "planned"
  /\ phase' = [phase EXCEPT ![s] = "none"]
  /\ skey' = [skey EXCEPT ![s] = 0]
  /\ plan' = [plan EXCEPT ![s] = NoPlan]
  /\ res' = [res EXCEPT ![s] = {}]
  /\ lastOp' = [NoOp EXCEPT !.op = "DropPlan", !.scan = s]
  /\ UNCHANGED <<restOfExec, cache, established, current, fest, host,
                 IfxCacheIsInitialized>>

(***************************************************************************)
(* Sub-transaction callback.                                               *)
(***************************************************************************)
\* a callback that passes no entry by
ifxSubXactSkipsNever(entry, curlevel) == FALSE

\* the entries the callback passes by: nest level below the current one
ifxSubXactSkips(entry, curlevel) == entry.tx_in_progress < curlevel

\* a callback that takes no entry for leaked
ifxSubXactLeakedNever(entry, curlevel) == FALSE

\* the entries reported with "leaked savepoint detected"
ifxSubXactLeaked(entry, curlevel) == entry.tx_in_progress > curlevel

\* the host starts a sub-transaction, or commits or aborts the one it is
\* in, and calls back; rejected are the sessions whose server rejects the
\* release of or the rollback to the savepoint (a WARNING)
ifx_fdw_subxact_callback(event, rejected) ==
  /\ host = "running"
  /\ event = "SUBXACT_EVENT_START_SUB" => rejected = {}
  /\ event # "SUBXACT_EVENT_START_SUB" => nestLevel > 1
  /\ LET curlevel == IF event = "SUBXACT_EVENT_START_SUB" THEN nestLevel + 1
                                                          ELSE nestLevel
         acts == /\ ifxXactInProgress(cache) >= 1
                 /\ event \in {"SUBXACT_EVENT_COMMIT_SUB",
                               "SUBXACT_EVENT_ABORT_SUB"}
         touched == IF acts
                      THEN {k \in DOMAIN cache :
                              /\ cache[k].present
                              /\ ~ifxSubXactSkips(cache[k], curlevel)}
                      ELSE {}
         warned == {k \in touched : ifxSubXactLeaked(cache[k], curlevel)}
         done(k) == IF event = "SUBXACT_EVENT_COMMIT_SUB"
                      THEN ifxCommitTransaction(cache, k, curlevel,
                                                k \in rejected)
                      ELSE ifxRollbackTransaction(cache, k, curlevel,
                                                  k \in rejected)
     IN /\ rejected \subseteq touched
        /\ cache' = [k \in DOMAIN cache |->
                       IF k \in touched THEN done(k)[k] ELSE cache[k]]
        /\ nestLevel' = IF event = "SUBXACT_EVENT_START_SUB" THEN curlevel
                                                             ELSE curlevel - 1
        /\ subxOp' = [event |-> event, curlevel |-> curlevel,
                      before |-> [k \in DOMAIN cache |-> cache[k].tx_in_progress],
                      touched |-> touched, warned |-> warned,
                      failed |-> rejected]
  /\ UNCHANGED <<qualVars, cacheVars, modVars, paramVars, established,
                 current, res,
                 phase, skey, plan, fest, host, IfxCacheIsInitialized, lastOp>>

\* ifxSetupConnection on a session that can be established, inside the
\* sub-transaction the host is in: the lookup, and the transaction and
\* savepoints up to the nest level when they can be started (a WARNING
\* when not)
ifxSetupConnectionLevel(k, started) ==
  /\ host = "running"
  /\ cache[k].present => cache[k].usage < MaxUsage
  /\ LET c1 == ifxConnCache_add(cache, k)
     IN cache' = IF started THEN ifxStartTransactionLevel(c1, k, nestLevel)
                            ELSE c1
  /\ established' = [established EXCEPT ![k] = TRUE]
  /\ current' = k
  /\ IfxCacheIsInitialized' = TRUE
  /\ subxOp' = [NoSubXactOp EXCEPT !.event = "lookup"]
  /\ UNCHANGED <<qualVars, cacheVars, modVars, paramVars, nestLevel, res,
                 phase, skey,
                 plan, fest, host, lastOp>>

(***************************************************************************)
(* Modify callbacks.  The statement of an UPDATE or DELETE is one more     *)
(* statement on the connection of the scan it takes its rows from; the     *)
(* scan itself is planned and run by the scan callbacks.                   *)
(***************************************************************************)
\* disable_rowid option of the foreign table a statement modifies
DisableRowid(s) == s = 2

\* ifxPlanForeignModify: the statement gets its connection and its refid;
\* nothing is prepared before the executor starts
ifxPlanForeignModify(s, k, cmd, status, tx) ==
  /\ host = "running"
  /\ phase[s] = "none"
  /\ cache[k].present => cache[k].usage < MaxUsage
  /\ LET m0 == Machine(k, 0, "IFX_SCROLL_CURSOR", IFX_STACK_EMPTY, {})
         su == ifxSetupConnection(cache, m0, status, tx)
         m1 == IF su.m.raised THEN su.m
               ELSE [su.m EXCEPT
                       !.ref = su.cache[k].usage,
                       !.cursorUsage = IF cmd = "CMD_INSERT"
                                         THEN "IFX_INSERT_CURSOR"
                                         ELSE "IFX_UPDATE_CURSOR"]
     IN /\ Leave("PlanModify", s, m1)
        /\ cache' = su.cache
        /\ IfxCacheIsInitialized' = TRUE
        /\ IF m1.raised
             THEN UNCHANGED <<phase, skey, plan, operation>>
             ELSE /\ phase' = [phase EXCEPT ![s] = "planned"]
                  /\ skey' = [skey EXCEPT ![s] = k]
                  /\ plan' = [plan EXCEPT ![s] = ifxGetForeignPlan(m1)]
                  /\ operation' = [operation EXCEPT ![s] = cmd]
        /\ UNCHANGED <<qualVars, cacheVars, subxVars, paramVars, fest>>

ifxBeginForeignModify(s, status, tx, sc, explain_only, failed) ==
  /\ host = "running"
  /\ phase[s] = "planned"
  /\ cache[skey[s]].present => cache[skey[s]].usage < MaxUsage
  /\ LET k  == skey[s]
         use_rowid == ~DisableRowid(s)
         m0 == Machine(k, -1, "IFX_SCROLL_CURSOR", IFX_STACK_EMPTY, res[s])
         su == ifxSetupConnection(cache, m0, status, tx)
         m1 == ifxDeserializeFdwData(su.m, plan[s])
         m2 == ifxPrepareModifyQuery(m1, operation[s], sc)
         d  == IF operation[s] = "CMD_INSERT"
                 THEN ifxDescribeAllocatorByName(m2, Out(sc, 3))
                 ELSE ifxDescribeStmtInput(m2, Out(sc, 3))
         m3 == ifxCatchExceptions(d, IFX_STACK_ALLOCATE \cup IFX_STACK_DESCRIBE)
         m4 == IF operation[s] = "CMD_INSERT"
                 THEN ifxCatchExceptions(ifxOpenCursorForPrepared(m3, Out(sc, 4)),
                                         IFX_STACK_OPEN)
                 ELSE m3
         m5 == ifxRewindAndError(m4, failed)
         m  == IF explain_only THEN m1
               ELSE IF operation[s] # "CMD_DELETE" \/ use_rowid THEN m5
               ELSE m2
     IN /\ Leave("BeginModify", s, m)
        /\ cache' = su.cache
        /\ IF m.raised
             THEN UNCHANGED <<phase, fest>>
             ELSE /\ phase' = [phase EXCEPT ![s] = "running"]
                  /\ fest' = [fest EXCEPT ![s] =
                                [call_stack |-> m.cs, rescan |-> FALSE,
                                 explain_only |-> explain_only]]
        /\ UNCHANGED <<restOfExec, skey, plan, IfxCacheIsInitialized>>

ifxEndForeignModify(s, out) ==
  /\ host = "running"
  /\ phase[s] = "running"
  /\ LET m0 == Machine(skey[s], plan[s].refid, plan[s].cursorUsage,
                       fest[s].call_stack, res[s])
         m1 == IF /\ m0.cursorUsage = "IFX_INSERT_CURSOR"
                  /\ IFX_STACK_OPEN \subseteq m0.cs
                 THEN ifxFlushCursor(m0, out)
                 ELSE m0
         m2 == ifxCatchExceptions(m1, {})
         m3 == IF m2.raised THEN m2 ELSE ifxRewindCallstack(m2)
     IN /\ Leave("EndModify", s, m3)
        /\ IF m3.raised
             THEN UNCHANGED <<phase, fest>>
             ELSE /\ phase' = [phase EXCEPT ![s] = "planned"]
                  /\ fest' = [fest EXCEPT ![s] = NoState]
        /\ UNCHANGED <<restOfExec, cache, skey, plan, IfxCacheIsInitialized>>

\* the idle values of the history of the cache lookups
NoConInfo == [username |-> <<>>, database |-> <<>>, servername |-> <<>>]

NoCacheOp == [op |-> "none", coninfo |-> NoConInfo, conname |-> <<>>,
              found |-> FALSE, raised |-> FALSE, usage |-> 0,
              removed |-> {}]

CacheIdle ==
  /\ item_coninfo = <<>>
  /\ cacheOp = NoCacheOp

QualsIdle ==
  /\ baserestrictinfo = <<>>
  /\ predicate_pushdown = TRUE
  /\ predicate = <<>>
  /\ excl_restrictInfo = <<>>
  /\ scan_clauses = <<>>
  /\ pushdownCxt = [count |-> 0, count_removed |-> 0, has_or_expr |-> FALSE]
  /\ qphase = "quals"

Init == ExecInit /\ QualsIdle /\ CacheIdle /\ ParamsIdle

(***************************************************************************)
(* Spec: one statement on one connection, with every outcome the remote    *)
(* side can answer.                                                        *)
(***************************************************************************)
OneScan == {1}
OneKey  == {1}

Next ==
  \/ \E s \in OneScan, k \in OneKey, cmd \in {"CMD_SELECT", "CMD_UPDATE"},
        status \in ConnStatusClass, tx \in BOOLEAN, sc \in Scripts(2) :
       ifxGetForeignRelSize(s, k, cmd, status, tx, sc)
  \/ \E s \in OneScan : DropPlan(s)
  \/ \E s \in OneScan, status \in ConnStatusClass, sc \in Scripts(5),
        explain_only \in BOOLEAN :
       \E failed \in IF explain_only THEN {FALSE} ELSE BOOLEAN :
         ifxBeginForeignScan(s, status, sc, explain_only, failed)
  \/ \E s \in OneScan, status \in ConnStatusClass, sc \in Scripts(3),
        eof \in BOOLEAN, failed \in BOOLEAN, rowid_null \in BOOLEAN :
       ifxIterateForeignScan(s, status, sc, eof, failed, rowid_null)
  \/ \E s \in OneScan : ifxReScanForeignScan(s)
  \/ \E s \in OneScan : ifxEndForeignScan(s)
  \/ \E k \in OneKey, disconnected \in BOOLEAN :
       ifxCloseConnection(k, disconnected)
  \/ \E failed \in SUBSET OneKey : ifx_fdw_xact_callback_commit(failed)
  \/ \E unreachable \in SUBSET OneKey, failed \in SUBSET OneKey :
       ifx_fdw_xact_callback_abort(unreachable, failed)

Spec == Init /\ [][Next]_vars

(***************************************************************************)
(* SpecStack: the unwind and the error trap as functions of the call       *)
(* stack.  One statement on an established session starts with any set of  *)
(* flags and holds the resources its flags stand for; a step unwinds its   *)
(* stack, or traps the outcome of a remote call with the flag of the       *)
(* resource the call acquires.                                             *)
(***************************************************************************)
AllFlags ==
  IFX_STACK_PREPARE \cup IFX_STACK_DECLARE \cup IFX_STACK_ALLOCATE
    \cup IFX_STACK_DESCRIBE \cup IFX_STACK_OPEN

\* the order in which the flags of a statement are raised
StackOrder ==
  <<IFX_STACK_PREPARE, IFX_STACK_DECLARE,
    IFX_STACK_ALLOCATE \cup IFX_STACK_DESCRIBE, IFX_STACK_OPEN>>

\* the flags ifxCatchExceptions is called with for a statement whose call
\* stack is stack: none, or the flag of the next resource it lacks
StackEntries(stack) ==
  LET lacks == {i \in DOMAIN StackOrder : StackOrder[i] \cap stack = {}}
  IN {IFX_STACK_EMPTY}
       \cup {StackOrder[i] : i \in {j \in lacks : \A l \in lacks : j <= l}}

\* the remote objects a set of flags stands for
Resources(flags) == flags \ IFX_STACK_DESCRIBE

InitStack ==
  /\ ParamsIdle
  /\ \E S \in SUBSET AllFlags :
       /\ res = [s \in Scans |-> IF s = 1 THEN Resources(S) ELSE {}]
       /\ plan = [s \in Scans |->
                    IF s = 1 THEN [NoPlan EXCEPT !.call_stack = S,
                                                 !.refid = 1]
                             ELSE NoPlan]
       /\ fest = [s \in Scans |->
                    IF s = 1 THEN [call_stack |-> S, rescan |-> FALSE,
                                   explain_only |-> FALSE]
                             ELSE NoState]
  /\ cache = [k \in Keys |-> IF k = 1 THEN [NoEntry EXCEPT !.present = TRUE,
                                                           !.usage = 1]
                                       ELSE NoEntry]
  /\ established = [k \in Keys |-> k = 1]
  /\ current = 1
  /\ phase = [s \in Scans |-> IF s = 1 THEN "running" ELSE "none"]
  /\ skey = [s \in Scans |-> IF s = 1 THEN 1 ELSE 0]
  /\ host = "running"
  /\ IfxCacheIsInitialized = TRUE
  /\ lastOp = NoOp
  /\ operation = [s \in Scans |-> "CMD_SELECT"]
  /\ nestLevel = 1
  /\ subxOp = NoSubXactOp
  /\ QualsIdle
  /\ CacheIdle

\* ifxRewindCallstack on the statement; a run that follows another run is
\* noted as such
Unwind(s) ==
  /\ host = "running"
  /\ phase[s] = "running"
  /\ LET m0 == Machine(skey[s], plan[s].refid, plan[s].cursorUsage,
                       fest[s].call_stack, res[s])
         m  == ifxRewindCallstack(m0)
         again == lastOp.op \in {"Unwind", "UnwindAgain"}
     IN /\ Leave(IF again THEN "UnwindAgain" ELSE "Unwind", s, m)
        /\ fest' = [fest EXCEPT ![s].call_stack = m.cs]
  /\ UNCHANGED <<restOfExec, cache, phase, skey, plan, IfxCacheIsInitialized>>

\* a remote call that acquires the resource of stackentry answers class out,
\* and ifxCatchExceptions(state, stackentry) looks at it; the history keeps
\* the class the trap returns
Trap(s, out, stackentry) ==
  /\ host = "running"
  /\ phase[s] = "running"
  /\ LET m0 == Machine(skey[s], plan[s].refid, plan[s].cursorUsage,
                       fest[s].call_stack, res[s])
         m1 == [RemoteCall(m0, out) EXCEPT
                  !.res = IF out \in OkClasses THEN @ \cup Resources(stackentry)
                                               ELSE @]
         m2 == ifxCatchExceptions(m1, stackentry)
         m  == [m2 EXCEPT !.errclass = ifxSetException(m1)]
     IN /\ Leave("Trap", s, m)
        /\ fest' = [fest EXCEPT ![s].call_stack = m.cs]
  /\ UNCHANGED <<restOfExec, cache, phase, skey, plan, IfxCacheIsInitialized>>

NextStack ==
  \/ \E s \in OneScan : Unwind(s)
  \/ \E s \in OneScan, out \in IfxSqlStateClass :
       \E stackentry \in StackEntries(fest[s].call_stack) :
         Trap(s, out, stackentry)

SpecStack == InitStack /\ [][NextStack]_vars

(***************************************************************************)
(* SpecModify: the modify statements of two foreign tables, one modified   *)
(* by ROWID and one through the cursor of the scan, on one connection to a *)
(* database with transactions, one statement at a time.  An error of the   *)
(* remote side is a runtime error or an error of another class.            *)
(***************************************************************************)
CmdTypes == {"CMD_INSERT", "CMD_UPDATE", "CMD_DELETE"}

ModifyScripts ==
  {sc \in Scripts(4) : sc.failClass \in {"IFX_RT_ERROR", "IFX_ERROR"}}

NextModify ==
  \/ \E s \in Scans, k \in OneKey, cmd \in CmdTypes,
        status \in ConnStatusClass :
       /\ \A t \in Scans : phase[t] = "none"
       /\ ifxPlanForeignModify(s, k, cmd, status, TRUE)
  \/ \E s \in Scans, status \in ConnStatusClass,
        sc \in ModifyScripts, explain_only \in BOOLEAN :
       \E failed \in IF explain_only THEN {FALSE} ELSE BOOLEAN :
         ifxBeginForeignModify(s, status, TRUE, sc, explain_only, failed)
  \/ \E s \in Scans, out \in {"IFX_SUCCESS", "IFX_RT_ERROR", "IFX_ERROR"} :
       ifxEndForeignModify(s, out)
  \/ \E s \in Scans : DropPlan(s)
  \/ \E unreachable \in SUBSET OneKey, failed \in SUBSET OneKey :
       ifx_fdw_xact_callback_abort(unreachable, failed)

SpecModify == Init /\ [][NextModify]_vars

(***************************************************************************)
(* SpecSessions: two statements, each on a connection of its own, with a   *)
(* remote side that answers every call with success.                       *)
(***************************************************************************)
AllGood == [failAt |-> 0, failClass |-> "IFX_ERROR", okClass |-> "IFX_SUCCESS"]

NextSessions ==
  \/ \E s \in Scans :
       ifxGetForeignRelSize(s, s, "CMD_SELECT", "IFX_CONNECTION_OK", TRUE,
                            AllGood)
  \/ \E s \in Scans : DropPlan(s)
  \/ \E s \in Scans :
       ifxBeginForeignScan(s, "IFX_CONNECTION_OK", AllGood, FALSE, FALSE)
  \/ \E s \in Scans, eof \in BOOLEAN :
       ifxIterateForeignScan(s, "IFX_CONNECTION_OK", AllGood, eof, FALSE,
                             FALSE)
  \/ \E s \in Scans : ifxReScanForeignScan(s)
  \/ \E s \in Scans : ifxEndForeignScan(s)
  \/ ifx_fdw_xact_callback_commit({})

SpecSessions == Init /\ [][NextSessions]_vars

(***************************************************************************)
(* SpecSubXact: two connections used inside nested sub-transactions of the *)
(* host.                                                                   *)
(***************************************************************************)
MaxNest == 3

SubXactEvents ==
  {"SUBXACT_EVENT_START_SUB", "SUBXACT_EVENT_COMMIT_SUB",
   "SUBXACT_EVENT_ABORT_SUB"}

NextSubXact ==
  \/ \E k \in Keys, started \in BOOLEAN : ifxSetupConnectionLevel(k, started)
  \/ \E event \in SubXactEvents, rejected \in SUBSET Keys :
       /\ event = "SUBXACT_EVENT_START_SUB" => nestLevel < MaxNest
       /\ ifx_fdw_subxact_callback(event, rejected)
  \/ /\ nestLevel = 1
     /\ ifx_fdw_xact_callback_commit({})

SpecSubXact == Init /\ [][NextSubXact]_vars

(***************************************************************************)
(* SpecShared: two statements on one connection that stays cached, with a  *)
(* remote side that answers every call with success.                       *)
(***************************************************************************)
\* "s%d_%d", "d%d_%d", "c%d_%d" of MyBackendId and the refid
ifxGenStatementName(stmt_id) == <<"s", "MyBackendId", "_", stmt_id>>
ifxGenDescrName(descr_id)    == <<"d", "MyBackendId", "_", descr_id>>
ifxGenCursorName(curid)      == <<"c", "MyBackendId", "_", curid>>

NextShared ==
  \/ \E s \in Scans, k \in OneKey,
        cmd \in {"CMD_SELECT", "CMD_UPDATE", "CMD_DELETE"} :
       ifxGetForeignRelSize(s, k, cmd, "IFX_CONNECTION_OK", TRUE, AllGood)
  \/ \E s \in Scans : DropPlan(s)
  \/ \E s \in Scans, explain_only \in BOOLEAN :
       ifxBeginForeignScan(s, "IFX_CONNECTION_OK", AllGood, explain_only, FALSE)
  \/ \E s \in Scans : ifxEndForeignScan(s)

SpecShared == Init /\ [][NextShared]_vars

(***************************************************************************)
(* SpecReconnect: two statements on one connection of a database without   *)
(* transactions; the connection can be closed administratively and is      *)
(* created again by the next plan.                                         *)
(***************************************************************************)
NextReconnect ==
  \/ \E s \in Scans, k \in OneKey :
       ifxGetForeignRelSize(s, k, "CMD_SELECT", "IFX_CONNECTION_OK", FALSE,
                            AllGood)
  \/ \E s \in Scans : DropPlan(s)
  \/ \E s \in Scans :
       ifxBeginForeignScan(s, "IFX_CONNECTION_OK", AllGood, FALSE, FALSE)
  \/ \E s \in Scans : ifxEndForeignScan(s)
  \/ \E k \in OneKey : ifxCloseConnection(k, TRUE)

SpecReconnect == Init /\ [][NextReconnect]_vars

(***************************************************************************)
(* SpecQuals: the planner callbacks applied to the filters of one foreign  *)
(* table with the columns a (integer), b (text) and d (date).              *)
(***************************************************************************)
Col(name, type) == Node("Var", name, type, foreign_rtid, <<>>)
Lit(value, type) == Node("Const", value, type, 0, <<>>)
Op(oprid, left, right) == Node("OpExpr", oprid, "BOOLOID", 0, <<left, right>>)
In(col, values) ==
  Node("ScalarArrayOpExpr", "eq", "BOOLOID", 0,
       <<col, Node("Const", "array", "ARRAYOID", 0, values)>>)

Atoms ==
  { Op("eq", Col("a", "INT4OID"), Lit("5", "INT4OID")),
    Op("gt", Col("d", "DATEOID"), Lit("2020-01-01", "DATEOID")),
    Op("gt", Col("b", "TEXTOID"), Lit("a", "TEXTOID")),
    Op("regex", Col("b", "TEXTOID"), Lit("x", "TEXTOID")),
    Op("usereq", Col("a", "INT4OID"), Lit("5", "INT4OID")),
    Op("eq", Node("Var", "o", "INT4OID", foreign_rtid + 1, <<>>),
       Lit("5", "INT4OID")),
    Op("eq", Node("RelabelType", "", "TEXTOID", 0, <<Col("b", "VARCHAROID")>>),
       Lit("x", "TEXTOID")),
    Op("eq", Node("RelabelType", "", "TEXTOID", 0,
                  <<Node("Var", "o", "VARCHAROID", foreign_rtid + 1, <<>>)>>),
       Lit("x", "TEXTOID")),
    Op("eq", Col("b", "TEXTOID"), Lit(LongText, "TEXTOID")),
    Node("FuncExpr", "f", "BOOLOID", 0, <<Col("b", "TEXTOID")>>),
    Node("NullTest", "IS_NULL", "", 0, <<Col("a", "INT4OID")>>),
    Node("NullTest", "IS_NOT_NULL", "argisrow", 0,
         <<Node("RowExpr", "", "RECORDOID", 0, <<>>)>>),
    In(Col("a", "INT4OID"), <<Lit("1", "INT4OID"), Lit("2", "INT4OID")>>),
    In(Col("d", "DATEOID"), <<Lit("2020-01-01", "DATEOID")>>) }

Clauses ==
  Atoms
    \cup { Node("BoolExpr", "OR_EXPR", "BOOLOID", 0, <<x, y>>) :
             x \in Atoms, y \in Atoms }
    \cup { Node("BoolExpr", "NOT_EXPR", "BOOLOID", 0, <<x>>) : x \in Atoms }

\* a filter is a first clause followed by up to MaxClauses - 1 plain ones
Filters ==
  UNION { { <<c>> \o rest : c \in Clauses, rest \in [1..n -> Atoms] } :
          n \in 0..(MaxClauses - 1) }

InitQuals ==
  /\ ParamsIdle
  /\ ExecInit
  /\ CacheIdle
  /\ baserestrictinfo \in Filters
  /\ predicate_pushdown \in BOOLEAN
  /\ predicate = <<>>
  /\ excl_restrictInfo = <<>>
  /\ scan_clauses = <<>>
  /\ pushdownCxt = [count |-> 0, count_removed |-> 0, has_or_expr |-> FALSE]
  /\ qphase = "quals"

\* the pushdown step of ifxGetForeignRelSize
ifxGetForeignRelSize_quals ==
  /\ qphase = "quals"
  /\ IF predicate_pushdown
       THEN LET r == ifxFilterQuals(baserestrictinfo)
            IN /\ predicate' = r.predicate
               /\ excl_restrictInfo' = r.excl_restrictInfo
               /\ pushdownCxt' = r.cxt
       ELSE /\ predicate' = <<>>
            /\ UNCHANGED <<excl_restrictInfo, pushdownCxt>>
  /\ qphase' = "filtered"
  /\ UNCHANGED <<restOfQuals, baserestrictinfo, predicate_pushdown, scan_clauses>>

\* the choice of the local scan clauses in ifxGetForeignPlan
ifxGetForeignPlan_quals ==
  /\ qphase = "filtered"
  /\ scan_clauses' = IF predicate_pushdown THEN excl_restrictInfo
                                           ELSE baserestrictinfo
  /\ qphase' = "planned"
  /\ UNCHANGED <<restOfQuals, baserestrictinfo, predicate_pushdown, predicate,
                 excl_restrictInfo, pushdownCxt>>

NextQuals ==
  \/ ifxGetForeignRelSize_quals
  \/ ifxGetForeignPlan_quals

SpecQuals == InitQuals /\ [][NextQuals]_vars

(***************************************************************************)
(* SpecArrays: the planner callbacks applied to a filter that is one       *)
(* scalar-array operation: a column, or a relabelled column, compared by   *)
(* =, <> or > with ANY (useOr) or ALL of the members of an array.          *)
(***************************************************************************)
ArrayOp(oprid, useOr, col, values) ==
  [In(col, values) EXCEPT !.name = oprid, !.useOr = useOr]

ArrayColumns ==
  { Col("a", "INT4OID"),
    Node("RelabelType", "", "INT8OID", 0, <<Col("a", "INT4OID")>>),
    Node("FuncExpr", "f", "INT4OID", 0, <<Col("a", "INT4OID")>>) }

ArrayValues ==
  { <<>>,
    <<Lit("1", "INT4OID")>>,
    <<Lit("1", "INT4OID"), Lit("2", "INT4OID"), Lit("3", "INT4OID")>> }

ArrayFilters ==
  { <<ArrayOp(oprid, useOr, col, values)>> :
      oprid \in {"eq", "ne", "gt"}, useOr \in BOOLEAN,
      col \in ArrayColumns, values \in ArrayValues }

InitArrays ==
  /\ ParamsIdle
  /\ ExecInit
  /\ CacheIdle
  /\ baserestrictinfo \in ArrayFilters
  /\ predicate_pushdown \in BOOLEAN
  /\ predicate = <<>>
  /\ excl_restrictInfo = <<>>
  /\ scan_clauses = <<>>
  /\ pushdownCxt = [count |-> 0, count_removed |-> 0, has_or_expr |-> FALSE]
  /\ qphase = "quals"

SpecArrays == InitArrays /\ [][NextQuals]_vars

(***************************************************************************)
(* SpecCache: the lookups and removals of the connection cache for the     *)
(* foreign tables of a few users and databases on one server.  A name is   *)
(* a sequence of characters.                                               *)
(***************************************************************************)
Usernames   == {<<"a">>, <<"a", "b">>}
Databases   == {<<"c">>, <<"b", "c">>}
Servernames == {<<"s">>}

ConInfos ==
  [username : Usernames, database : Databases, servername : Servernames]

\* string_hash of the host: the hash value of a string.  It is taken to
\* have no collision on the strings of the model.
string_hash(str) == <<"hash", str>>

\* "con_%u" of the hash of username, database and servername concatenated
ifxGenerateConnName(coninfo) ==
  <<"con_", string_hash(coninfo.username \o coninfo.database
                          \o coninfo.servername)>>

Connames == {ifxGenerateConnName(coninfo) : coninfo \in ConInfos}

InitCache ==
  /\ ParamsIdle
  /\ cache = [n \in Connames |-> NoEntry]
  /\ ScansIdle
  /\ QualsIdle
  /\ item_coninfo = [n \in Connames |-> NoConInfo]
  /\ cacheOp = NoCacheOp

\* ifxMakeConnectionInfo and the lookup of ifxSetupConnection: the name of
\* the connection is generated and looked up with ifxConnCache_add, which
\* stores username, database and servername in an entry it creates
CacheLookup(coninfo) ==
  LET conname == ifxGenerateConnName(coninfo)
      found == cache[conname].present
  IN /\ cache[conname].usage < MaxUsage
     /\ cache' = ifxConnCache_add(cache, conname)
     /\ item_coninfo' = IF found THEN item_coninfo
                        ELSE [item_coninfo EXCEPT ![conname] = coninfo]
     /\ cacheOp' = [op |-> "add", coninfo |-> coninfo, conname |-> conname,
                    found |-> found, raised |-> FALSE,
                    usage |-> cache'[conname].usage,
                    removed |-> cacheOp.removed]
     /\ UNCHANGED <<established, current, res, phase, skey, plan, fest, host,
                    IfxCacheIsInitialized, lastOp, qualVars, modVars, subxVars,
                 paramVars>>

\* ifxConnCache_rm by connection name
CacheRemove(conname) ==
  /\ cache' = ifxConnCache_rm(cache, conname)
  /\ item_coninfo' = [item_coninfo EXCEPT ![conname] = NoConInfo]
  /\ cacheOp' = [op |-> "rm", coninfo |-> NoConInfo, conname |-> conname,
                 found |-> cache[conname].present, raised |-> FALSE,
                 usage |-> 0,
                 removed |-> IF cache[conname].present
                               THEN cacheOp.removed \cup {conname}
                               ELSE cacheOp.removed]
  /\ UNCHANGED <<established, current, res, phase, skey, plan, fest, host,
                 IfxCacheIsInitialized, lastOp, qualVars, modVars, subxVars,
                 paramVars>>

NextCache ==
  \/ \E coninfo \in ConInfos : CacheLookup(coninfo)
  \/ \E conname \in Connames : CacheRemove(conname)

SpecCache == InitCache /\ [][NextCache]_vars

(***************************************************************************)
(* SpecParams: the statement text and the parameters of one modify         *)
(* statement on a foreign table of up to MaxAtts columns, each of them     *)
(* dropped or not, modified by ROWID or through the cursor of the scan.    *)
(***************************************************************************)
MaxAtts == 3

\* pg_attribute.attisdropped of the columns of a foreign table, by attnum
TableDefs == UNION {[1..n -> BOOLEAN] : n \in 1..MaxAtts}

\* pg_attribute.attname by attnum
attname == <<"a", "b", "c", "d">>

\* the ascending sequence of a set of attribute numbers
BMS_LOOKUP_COL(tmpset) ==
  [k \in 1..Cardinality(tmpset) |->
     CHOOSE col \in tmpset : Cardinality({c \in tmpset : c < col}) = k - 1]

\* the attribute numbers a modify statement sends: all columns of the table
\* for an INSERT, the updated columns for an UPDATE
ifxPrepareParamsForModify(cmd, attisdropped, updatedCols) ==
  CASE cmd = "CMD_INSERT" -> [attnum \in 1..Len(attisdropped) |-> attnum]
    [] cmd = "CMD_UPDATE" -> BMS_LOOKUP_COL(updatedCols)
    [] OTHER -> <<>>

\* the name of a column: get_attname also answers for a dropped column
dispatchColumnIdentifier(attisdropped, varattno) ==
  IF attisdropped[varattno] THEN "........pg.dropped........"
  ELSE attname[varattno]

WhereClause(disable_rowid) ==
  IF disable_rowid THEN <<"WHERE", "CURRENT", "OF", "cursor">>
  ELSE <<"WHERE", "rowid", "=", "?">>

ifxGenerateInsertSql(attisdropped, affectedAttrNums) ==
  <<"INSERT", "(">>
    \o [i \in 1..Len(affectedAttrNums) |->
          dispatchColumnIdentifier(attisdropped, affectedAttrNums[i])]
    \o <<")", "VALUES", "(">>
    \o [i \in 1..Len(affectedAttrNums) |-> "?"]
    \o <<")">>

ifxGenerateUpdateSql(attisdropped, affectedAttrNums, disable_rowid) ==
  <<"UPDATE", "SET">>
    \o [i \in 1..(3 * Len(affectedAttrNums)) |->
          CASE i % 3 = 1 ->
                 dispatchColumnIdentifier(attisdropped,
                                          affectedAttrNums[(i + 2) \div 3])
            [] i % 3 = 2 -> "="
            [] OTHER -> "?"]
    \o WhereClause(disable_rowid)

ifxGenerateDeleteSql(disable_rowid) ==
  <<"DELETE">> \o WhereClause(disable_rowid)

\* the column definitions of the foreign table: a dropped column has no
\* attribute number, the others are numbered as the remote table numbers
\* them; with ROWIDs one more slot follows
ifxPgColumnData(attisdropped, use_rowid) ==
  [i \in 1..Len(attisdropped) |->
     IF attisdropped[i]
       THEN [attnum |-> -1, ifx_attnum |-> -1]
       ELSE [attnum |-> i,
             ifx_attnum |-> Cardinality({j \in 1..i : ~attisdropped[j]})]]
    \o (IF use_rowid
          THEN <<[attnum |-> Len(attisdropped) + 1,
                  ifx_attnum |-> Len(attisdropped) + 1]>>
          ELSE <<>>)

\* the input parameters the remote side describes for a statement: one for
\* each placeholder
Placeholders(query) == {p \in DOMAIN query : query[p] = "?"}

ifxRowIdValueToSqlda(sqlda, paramId) ==
  [p \in DOMAIN sqlda \cup {paramId} |->
     IF p = paramId THEN "rowid" ELSE sqlda[p]]

ModifyStatements ==
  {[NoModify EXCEPT !.step = "parsed", !.operation = cmd,
                    !.attisdropped = attisdropped,
                    !.updatedCols = updatedCols,
                    !.disable_rowid = disable_rowid] :
     <<cmd, attisdropped, updatedCols, disable_rowid>> \in
       {x \in CmdTypes \X TableDefs \X (SUBSET (1..MaxAtts)) \X BOOLEAN :
          /\ x[3] \subseteq {i \in DOMAIN x[2] : ~x[2][i]}
          /\ (x[3] # {}) <=> (x[1] = "CMD_UPDATE")}}

InitParams ==
  /\ ExecInit
  /\ QualsIdle
  /\ CacheIdle
  /\ modify \in ModifyStatements
  /\ ctid = NoCtid

\* the statement text of ifxPlanForeignModify
ifxPlanForeignModify_query ==
  /\ modify.step = "parsed"
  /\ LET affectedAttrNums ==
           ifxPrepareParamsForModify(modify.operation, modify.attisdropped,
                                     modify.updatedCols)
     IN modify' =
          [modify EXCEPT
             !.step = "planned",
             !.affectedAttrNums = affectedAttrNums,
             !.query =
               CASE modify.operation = "CMD_INSERT" ->
                      ifxGenerateInsertSql(modify.attisdropped,
                                           affectedAttrNums)
                 [] modify.operation = "CMD_UPDATE" ->
                      ifxGenerateUpdateSql(modify.attisdropped,
                                           affectedAttrNums,
                                           modify.disable_rowid)
                 [] OTHER -> ifxGenerateDeleteSql(modify.disable_rowid)]
  /\ UNCHANGED <<execVars, qualVars, cacheVars, modVars, subxVars, ctid>>

\* the column definitions and the descriptor of ifxBeginForeignModify: a
\* DELETE through the cursor of the scan has neither
ifxBeginForeignModify_sqlda ==
  /\ modify.step = "planned"
  /\ modify' =
       IF modify.operation = "CMD_DELETE" /\ modify.disable_rowid
         THEN [modify EXCEPT !.step = "begun"]
         ELSE [modify EXCEPT
                 !.step = "begun",
                 !.pgAttrDefs = ifxPgColumnData(modify.attisdropped,
                                                ~modify.disable_rowid),
                 !.ifxAttrCount = Cardinality(Placeholders(modify.query))]
  /\ UNCHANGED <<execVars, qualVars, cacheVars, modVars, subxVars, ctid>>

\* a row is sent: an outcome the trap raises for is a class of error
Executed(sqlda, out) ==
  /\ modify' = [modify EXCEPT !.step = "executed", !.sqlda = sqlda,
                              !.raised = out # "IFX_SUCCESS"]
  /\ UNCHANGED <<execVars, qualVars, cacheVars, modVars, subxVars, ctid>>

\* the values bound for a row are kept by parameter id (counted from 0); a
\* value is named by the column it is the value of.  An INSERT binds the
\* value of every column that has an attribute number to the parameter of
\* its position in the table
ifxExecForeignInsert(out) ==
  /\ modify.step = "begun"
  /\ modify.operation = "CMD_INSERT"
  /\ LET pgAttrCount == Len(modify.attisdropped)
         bound == {param_id \in 0..(pgAttrCount - 1) :
                     modify.pgAttrDefs[param_id + 1].attnum > 0}
     IN Executed([param_id \in bound |->
                    attname[modify.pgAttrDefs[param_id + 1].attnum]], out)

\* an UPDATE binds the values of the updated columns in the order of the
\* statement text, and the ROWID to the last parameter of the descriptor
ifxExecForeignUpdate(out) ==
  /\ modify.step = "begun"
  /\ modify.operation = "CMD_UPDATE"
  /\ LET sqlda == [param_id \in 0..(Len(modify.affectedAttrNums) - 1) |->
                     attname[modify.affectedAttrNums[param_id + 1]]]
     IN Executed(IF modify.disable_rowid THEN sqlda
                 ELSE ifxRowIdValueToSqlda(sqlda, modify.ifxAttrCount - 1),
                 out)

ifxExecForeignDelete(out) ==
  /\ modify.step = "begun"
  /\ modify.operation = "CMD_DELETE"
  /\ Executed(IF modify.disable_rowid THEN <<>>
              ELSE ifxRowIdValueToSqlda(<<>>, modify.ifxAttrCount - 1), out)

NextParams ==
  \/ ifxPlanForeignModify_query
  \/ ifxBeginForeignModify_sqlda
  \/ \E out \in {"IFX_SUCCESS", "IFX_RT_ERROR"} : ifxExecForeignInsert(out)
  \/ \E out \in {"IFX_SUCCESS", "IFX_RT_ERROR"} : ifxExecForeignUpdate(out)
  \/ \E out \in {"IFX_SUCCESS", "IFX_RT_ERROR"} : ifxExecForeignDelete(out)

SpecParams == InitParams /\ [][NextParams]_vars

(***************************************************************************)
(* SpecRowid: the ROWID of a fetched row is encoded into a tuple           *)
(* identifier of the host and decoded from it for the parameter of the     *)
(* UPDATE or DELETE of that row.  A ROWID is a 32-bit integer: the logical *)
(* page number in its upper three bytes, the slot in its lowest byte.  The *)
(* halves of a block number are 16-bit unsigned integers.                  *)
(***************************************************************************)
PageNumbers == {0, 1, 255, 256, 32767, 8388607, 8388608, 16777215}
SlotNumbers == {0, 1, 2, 128, 255}

\* the int32 with the given upper three bytes and lowest byte
RowIdValue(page, slot) ==
  IF page < 8388608 THEN page * 256 + slot
                    ELSE (page - 16777216) * 256 + slot

RowIds == {RowIdValue(page, slot) : page \in PageNumbers, slot \in SlotNumbers}

\* ItemPointerSet: the int32 converted to the unsigned block number and
\* split into its halves
ItemPointerSet(blockNumber, offNum) ==
  [ip_blkid |-> [bi_hi |-> (blockNumber \div 65536) % 65536,
                 bi_lo |-> blockNumber % 65536],
   ip_posid |-> offNum]

\* (int) ((bi_hi << 16) | (uint16) bi_lo): bi_hi is promoted to int, and
\* the shift of a value from 32768 on is not representable in int, which
\* leaves the result to the build: the bits reinterpreted as a negative
\* int, or the value without the bit shifted into the sign
RowIdOfItemPointer(iptr) ==
  LET bi_hi == iptr.ip_blkid.bi_hi
      bi_lo == iptr.ip_blkid.bi_lo
  IN IF bi_hi < 32768 THEN {bi_hi * 65536 + bi_lo}
     ELSE {(bi_hi - 65536) * 65536 + bi_lo, (bi_hi - 32768) * 65536 + bi_lo}

InitRowid ==
  /\ ExecInit
  /\ QualsIdle
  /\ CacheIdle
  /\ modify = NoModify
  /\ \E r \in RowIds : ctid = [NoCtid EXCEPT !.step = "fetched", !.rowid = r]

\* ifxGetRowIdForTuple: the tuple identifier of the fetched row
ifxGetRowIdForTuple_ctid ==
  /\ ctid.step = "fetched"
  /\ LET rowid == ItemPointerSet(ctid.rowid, 0)
     IN ctid' = [ctid EXCEPT !.step = "identified",
                             !.ip_blkid = rowid.ip_blkid,
                             !.ip_posid = rowid.ip_posid]
  /\ UNCHANGED <<execVars, qualVars, cacheVars, modVars, subxVars, modify>>

\* ifxRowIdValueToSqlda: the value bound to the parameter of the ROWID
ifxRowIdValueToSqlda_rowid ==
  /\ ctid.step = "identified"
  /\ \E rowid \in RowIdOfItemPointer(ctid) :
       ctid' = [ctid EXCEPT !.step = "bound", !.bound = rowid]
  /\ UNCHANGED <<execVars, qualVars, cacheVars, modVars, subxVars, modify>>

NextRowid ==
  \/ ifxGetRowIdForTuple_ctid
  \/ ifxRowIdValueToSqlda_rowid

SpecRowid == InitRowid /\ [][NextRowid]_vars

(***************************************************************************)
(* Properties of the scan callbacks, the error trap and the cache.         *)
(***************************************************************************)
TrappedErrors ==
  {"IFX_ERROR", "IFX_ERROR_TABLE_NOT_FOUND", "IFX_ERROR_INVALID_NAME"}

\* C1: when the trap raises for an outcome classified IFX_ERROR,
\* IFX_ERROR_TABLE_NOT_FOUND or IFX_ERROR_INVALID_NAME, the call stack of the
\* statement was unwound first: it is Empty and nothing the statement
\* acquired earlier is left allocated.
C1_TrapUnwindsBeforeRaising ==
  (lastOp.raised /\ lastOp.errclass \in TrappedErrors)
    => (lastOp.stack = IFX_STACK_EMPTY /\ lastOp.held = {})

\* C2: the end-of-scan callback never raises and leaves nothing of the
\* statement behind: no open cursor, descriptor area, declared cursor or
\* prepared statement, and an Empty call stack.
C2_EndReleasesEverything ==
  lastOp.op = "End"
    => (~lastOp.raised /\ lastOp.stack = IFX_STACK_EMPTY /\ lastOp.held = {})

\* C3: every resource is released exactly once: no callback issues a release
\* for a resource that is not held, and once a callback has unwound the call
\* stack nothing the statement acquired is still held.
C3_ReleasedExactlyOnce ==
  ~lastOp.unheld /\ (lastOp.unwound => lastOp.held = {})

\* what the pushdown rules call unsupported: an operator outside the allow
\* list or outside the standard namespace, a temporal literal, a column of
\* another relation, a node kind outside the supported set
AllowedOperators == {"=", "<>", "<", "<=", ">", ">=", "~~"}
TemporalTypes == {"INTERVALOID", "TIMESTAMPOID", "TIMEOID", "TIMESTAMPTZOID",
                  "TIMETZOID", "DATEOID"}
SupportedKinds == {"BoolExpr", "OpExpr", "NullTest", "ScalarArrayOpExpr"}

RECURSIVE Unsupported(_)
Unsupported(node) ==
  \/ node.kind \notin SupportedKinds
  \/ /\ node.kind = "OpExpr"
     /\ \/ pg_operator[node.name].oprname \notin AllowedOperators
        \/ pg_operator[node.name].oprnamespace # "pg_catalog"
        \/ \E i \in 1..Len(node.args) :
             \/ node.args[i].kind = "Const"
                  /\ node.args[i].type \in TemporalTypes
             \/ node.args[i].kind = "Var"
                  /\ node.args[i].varno # foreign_rtid
  \/ /\ node.kind = "BoolExpr"
     /\ \E i \in 1..Len(node.args) : Unsupported(node.args[i])

RECURSIVE HasUnsupportedOr(_)
HasUnsupportedOr(node) ==
  /\ node.kind = "BoolExpr"
  /\ \/ node.name = "OR_EXPR"
          /\ \E i \in 1..Len(node.args) : Unsupported(node.args[i])
     \/ \E i \in 1..Len(node.args) : HasUnsupportedOr(node.args[i])

\* C4: for a filter containing an OR with at least one unsupported disjunct
\* (unsupported operator, temporal literal, column of another relation, node
\* kind outside the supported set), the pushed predicate is empty.
C4_OrSafety ==
  (/\ qphase # "quals"
   /\ predicate_pushdown
   /\ \E i \in 1..Len(baserestrictinfo) :
        HasUnsupportedOr(baserestrictinfo[i]))
    => predicate = <<>>

\* C5: when an OR is rejected and the pushed predicate is therefore empty,
\* the clauses handed back to the host for local evaluation are the original
\* filter clauses, unchanged.
C5_RejectedOrKeepsResidual ==
  (/\ qphase = "planned"
   /\ predicate_pushdown
   /\ pushdownCxt.has_or_expr
   /\ pushdownCxt.count_removed > 0)
    => (predicate = <<>> /\ scan_clauses = baserestrictinfo)

\* C6: no step removes the cache entry of a session that has a transaction
\* in progress.
C6_NoEvictionInTransaction ==
  [][\A k \in Keys :
       (cache[k].present /\ cache[k].tx_in_progress > 0) => cache'[k].present
    ]_execVars

\* C7: an administrative close of a session with a transaction in progress
\* reports an error and leaves the cache as it was.
C7_CloseRefusedInTransaction ==
  [][\A k \in Keys :
       (/\ lastOp'.op = "Close"
        /\ lastOp'.key = k
        /\ cache[k].present
        /\ cache[k].tx_in_progress > 0)
         => (lastOp'.raised /\ cache' = cache)
    ]_execVars

\* a close was refused for a session that is inside a transaction
C7_Witness ==
  /\ lastOp.op = "Close"
  /\ lastOp.raised
  /\ cache[lastOp.key].present
  /\ cache[lastOp.key].tx_in_progress > 0

\* C8: the usage counter of an entry that stays in the cache changes only in
\* the plan-phase lookup.
C8_UsageOnlyOnPlanLookup ==
  [][\A k \in Keys :
       (/\ cache[k].present
        /\ cache'[k].present
        /\ cache'[k].usage # cache[k].usage)
         => lastOp'.op = "Plan"
    ]_execVars

\* C9: every remote call a callback issues for a statement goes to the
\* session of that statement.
C9_CallsOnOwnSession == ~lastOp.wrong

\* C10: when a callback reports that the session could not be established or
\* made current, the cache entry of that session is gone.
C10_FailedSessionEvicted ==
  lastOp.connfail => ~cache[lastOp.key].present

\* C11: a lookup whose {username, database, servername} differs from the one
\* stored in the entry it finds under its connection name is reported as an
\* error: two different triples never share a cached session.
C11_KeyCollisionIsAnError ==
  [][(/\ cacheOp'.op = "add"
      /\ cache[cacheOp'.conname].present
      /\ item_coninfo[cacheOp'.conname] # cacheOp'.coninfo)
       => cacheOp'.raised]_vars

\* the call stack of the callback when it made its i-th push
StackAt(i) ==
  lastOp.before \cup UNION {lastOp.pushes[j] : j \in 1..(i - 1)}

EarlierFlags(entry) ==
  UNION {StackOrder[i] : i \in {j \in DOMAIN StackOrder :
           \E l \in DOMAIN StackOrder : l > j /\ StackOrder[l] \cap entry # {}}}
    \ entry

\* C12: in every scan callback that succeeds, on a fresh plan or on a plan
\* that is executed again, a flag is pushed only when all flags before it in
\* the order prepared, declared, described/allocated, open are already set.
C12_PushesInOrder ==
  (lastOp.op \in {"Plan", "Begin", "Iterate", "End"} /\ ~lastOp.raised)
    => \A i \in DOMAIN lastOp.pushes :
         EarlierFlags(lastOp.pushes[i]) \subseteq StackAt(i)

\* a scan begun on a plan that was executed before: it prepares and declares
\* again, then describes and opens
C12_Witness ==
  /\ lastOp.op = "Begin" /\ ~lastOp.raised
  /\ Len(lastOp.pushes) = Len(StackOrder)
  /\ IFX_STACK_OPEN \subseteq lastOp.stack

\* C13 as stated: a modify statement pushes a flag only when all flags
\* before it in the order prepared, declared, described/allocated, open are
\* set: described/allocated never without declared, open never without
\* described/allocated.
C13_ModifyPushesInFullOrder ==
  lastOp.op \in {"BeginModify", "EndModify"}
    => \A i \in DOMAIN lastOp.pushes :
         EarlierFlags(lastOp.pushes[i]) \subseteq StackAt(i)

\* the flags a statement of the command never acquires
NeverAcquired(cmd) ==
  IF cmd = "CMD_INSERT" THEN {} ELSE IFX_STACK_DECLARE \cup IFX_STACK_OPEN

\* C13: a modify statement pushes its flags in the order prepared, declared,
\* described/allocated, open, over the steps its command has: an INSERT has
\* all four, an UPDATE or DELETE has no cursor of its own, never pushes
\* declared or open, and pushes described/allocated once prepared is set.
C13_ModifyPushesInOrder ==
  lastOp.op \in {"BeginModify", "EndModify"}
    => \A i \in DOMAIN lastOp.pushes :
         LET skipped == NeverAcquired(operation[lastOp.scan])
         IN /\ lastOp.pushes[i] \cap skipped = {}
            /\ EarlierFlags(lastOp.pushes[i]) \ skipped \subseteq StackAt(i)

\* an UPDATE that began: prepared and described, never declared
C13_Witness ==
  /\ lastOp.op = "BeginModify" /\ ~lastOp.raised
  /\ operation[lastOp.scan] = "CMD_UPDATE"
  /\ lastOp.stack = IFX_STACK_PREPARE \cup IFX_STACK_ALLOCATE
                       \cup IFX_STACK_DESCRIBE

\* C14: whatever flags the call stack holds, the unwind leaves it empty, and
\* an unwind that follows an unwind finds it empty, issues no release call
\* and leaves it empty.
C14_UnwindIdempotent ==
  /\ lastOp.op \in {"Unwind", "UnwindAgain"}
       => /\ lastOp.stack = IFX_STACK_EMPTY
          /\ fest[lastOp.scan].call_stack = IFX_STACK_EMPTY
  /\ lastOp.op = "UnwindAgain"
       => /\ lastOp.before = IFX_STACK_EMPTY
          /\ lastOp.log = <<>>

\* a second unwind of a statement whose first unwind released something
C14_Witness ==
  /\ lastOp.op = "UnwindAgain"
  /\ plan[lastOp.scan].call_stack # IFX_STACK_EMPTY
  /\ res[lastOp.scan] = {}

\* the release calls in the reverse of the order of acquisition, with the
\* flags of what they release
ReleaseOrder ==
  <<[call |-> "CLOSE",       flag |-> IFX_STACK_OPEN],
    [call |-> "DEALLOCATE",  flag |-> IFX_STACK_ALLOCATE],
    [call |-> "FREE_CURSOR", flag |-> IFX_STACK_DECLARE],
    [call |-> "FREE_STMT",   flag |-> IFX_STACK_PREPARE]>>

\* each release the stack asks for, followed by the clearing of its flag
RECURSIVE ExpectedLog(_, _)
ExpectedLog(i, stack) ==
  IF i > Len(ReleaseOrder) THEN <<>>
  ELSE (IF ReleaseOrder[i].flag \subseteq stack
          THEN <<[kind |-> "call", what |-> {ReleaseOrder[i].call}],
                 [kind |-> "pop",  what |-> ReleaseOrder[i].flag]>>
          ELSE <<>>)
         \o ExpectedLog(i + 1, stack)

\* C15: the unwind releases what the flags of the stack stand for in the
\* reverse of the order of acquisition: the open cursor, the descriptor
\* area, the declared cursor, the prepared statement, and clears the flag
\* of each right after its release, before the next release.
C15_UnwindReverseOrder ==
  lastOp.op \in {"Unwind", "UnwindAgain"}
    => lastOp.log = ExpectedLog(1, lastOp.before)

\* an unwind of a full stack: four releases
C15_Witness ==
  /\ lastOp.op = "Unwind"
  /\ lastOp.before = AllFlags
  /\ Len(lastOp.log) = 2 * Len(ReleaseOrder)

\* C16: the trap pushes the flag only when the remote call succeeded: when
\* the call is classified as not found or as an unknown state, which the
\* trap neither reports nor raises, the call stack is left as it was.
C16_NoPushUnlessSuccess ==
  (lastOp.op = "Trap"
     /\ lastOp.errclass \in {"IFX_NOT_FOUND", "IFX_STATE_UNKNOWN"})
    => lastOp.stack = lastOp.before

\* the statements that are planned or running on connection k
PlannedOn(k) == {s \in Scans : phase[s] # "none" /\ skey[s] = k}

\* C17: two scans planned on the same connection while its session stays
\* cached have different reference ids, hence different statement, cursor
\* and descriptor names, and the reference id of a scan is the value the
\* usage counter of the session took when the scan was planned.
C17_DistinctRefids ==
  /\ \A k \in Keys : \A s, t \in PlannedOn(k) :
       s # t => /\ cache[k].present
                /\ plan[s].refid # plan[t].refid
                /\ ifxGenStatementName(plan[s].refid)
                     # ifxGenStatementName(plan[t].refid)
                /\ ifxGenCursorName(plan[s].refid)
                     # ifxGenCursorName(plan[t].refid)
                /\ ifxGenDescrName(plan[s].refid)
                     # ifxGenDescrName(plan[t].refid)
  /\ (lastOp.op = "Plan" /\ ~lastOp.raised)
       => plan[lastOp.scan].refid = cache[lastOp.key].usage

\* the second scan was planned on the session the first one is running on
C17_Witness ==
  /\ lastOp.op = "Plan" /\ ~lastOp.raised
  /\ \E t \in PlannedOn(lastOp.key) : t # lastOp.scan /\ phase[t] = "running"

\* C18: a lookup of a connection name that is cached reports the entry as
\* found and returns that entry, with what was stored in it when it was
\* created; a removal takes the entry out, and the lookup after it reports
\* not found and returns a fresh entry with usage counter 1.
C18_CacheIdentity ==
  [][/\ cacheOp'.op = "add" =>
          LET n == cacheOp'.conname
          IN /\ cacheOp'.found = cache[n].present
             /\ cache'[n].present
             /\ cache[n].present =>
                  /\ item_coninfo'[n] = item_coninfo[n]
                  /\ cache'[n].usage = cache[n].usage + 1
                  /\ cache'[n].tx_in_progress = cache[n].tx_in_progress
             /\ ~cache[n].present => cache'[n].usage = 1
     /\ cacheOp'.op = "rm" => ~cache'[cacheOp'.conname].present]_vars

\* a lookup after a removal of its name: a fresh entry
C18_Witness ==
  /\ cacheOp.op = "add"
  /\ cacheOp.conname \in cacheOp.removed
  /\ ~cacheOp.found
  /\ cache[cacheOp.conname].usage = 1

LevelEvents == {"SUBXACT_EVENT_COMMIT_SUB", "SUBXACT_EVENT_ABORT_SUB"}

\* C19: when a sub-transaction commits or aborts at nest level L, only the
\* cached sessions whose recorded depth is at least L get the release of or
\* the rollback to the savepoint; a session recorded below L is not touched
\* and keeps its recorded depth.
C19_OnlySessionsAtLevel ==
  [][nestLevel' < nestLevel
       => /\ subxOp'.event \in LevelEvents
          /\ subxOp'.curlevel = nestLevel
          /\ \A k \in Keys :
               /\ k \in subxOp'.touched
                    => /\ cache[k].present
                       /\ cache[k].tx_in_progress >= nestLevel
               /\ cache[k].tx_in_progress < nestLevel
                    => /\ k \notin subxOp'.touched
                       /\ cache'[k] = cache[k]]_vars

\* one session below the level and in a transaction, the other at the level
C19_Witness ==
  /\ subxOp.event \in LevelEvents
  /\ \E k \in Keys : /\ subxOp.before[k] >= 1
                     /\ subxOp.before[k] < subxOp.curlevel
  /\ \E k \in Keys : k \in subxOp.touched /\ k \notin subxOp.failed

\* C20: when a sub-transaction commits or aborts at nest level L, every
\* cached session recorded at a depth above L is reported with the leaked
\* savepoint warning: its recorded depth never changes without the warning.
C20_LeakedSavepointWarned ==
  [][nestLevel' < nestLevel
       => \A k \in Keys :
            /\ (cache[k].present /\ cache[k].tx_in_progress > nestLevel)
                 => k \in subxOp'.warned
            /\ k \notin subxOp'.warned
                 => \/ cache'[k] = cache[k]
                    \/ cache[k].tx_in_progress = nestLevel]_vars

\* a session that missed the end of a deeper sub-transaction
C20_Witness ==
  /\ subxOp.event \in LevelEvents
  /\ subxOp.warned # {}


(***************************************************************************)
(* Claims on the operands of a pushed comparison.                          *)
(***************************************************************************)
\* the column reference of an operand: the operand itself, or what a
\* binary-compatible coercion is applied to
ColumnRefs(node) ==
  {node.args[i] : i \in {j \in 1..Len(node.args) : node.args[j].kind = "Var"}}
    \cup {node.args[i].args[1] :
            i \in {j \in 1..Len(node.args) :
                     /\ node.args[j].kind = "RelabelType"
                     /\ node.args[j].args[1].kind = "Var"}}

\* a comparison with a column reference to another relation or query level
ForeignToScan(node) ==
  /\ node.kind = "OpExpr"
  /\ \E v \in ColumnRefs(node) :
       v.varno # foreign_rtid \/ v.varlevelsup # 0

Tokens(text) == {text[i] : i \in 1..Len(text)}

\* C21: once the filter is compiled, a top-level comparison with a column
\* reference to another relation, direct or behind a binary-compatible
\* coercion, is in the residual list and its column is not in the pushed
\* text.
C21_OnlyColumnsOfScannedRelation ==
  (qphase # "quals" /\ predicate_pushdown) =>
    \A i \in 1..Len(baserestrictinfo) :
      ForeignToScan(baserestrictinfo[i]) =>
        /\ \E j \in 1..Len(excl_restrictInfo) :
             excl_restrictInfo[j] = baserestrictinfo[i]
        /\ \A v \in ColumnRefs(baserestrictinfo[i]) :
             v.varno # foreign_rtid => v.name \notin Tokens(predicate)

\* a list-membership test whose element values have a temporal type
TemporalIn(node) ==
  /\ node.kind = "ScalarArrayOpExpr"
  /\ \E i \in 1..Len(node.args) :
       /\ node.args[i].kind = "Const"
       /\ \E j \in 1..Len(node.args[i].args) :
            node.args[i].args[j].type \in TemporalTypes

\* C22: once the filter is compiled, a top-level list-membership test with
\* temporal element values is in the residual list, and alone in the filter
\* it leaves the pushed text empty.
C22_TemporalInIsResidual ==
  (qphase # "quals" /\ predicate_pushdown) =>
    \A i \in 1..Len(baserestrictinfo) :
      TemporalIn(baserestrictinfo[i]) =>
        /\ \E j \in 1..Len(excl_restrictInfo) :
             excl_restrictInfo[j] = baserestrictinfo[i]
        /\ Len(baserestrictinfo) = 1 => predicate = <<>>

(***************************************************************************)
(* Claims on the pushed text.  A condition of the remote dialect, as far   *)
(* as the compiler emits one, is a list of comparisons, null tests and     *)
(* list-membership tests with one connective between two neighbours.       *)
(***************************************************************************)
Connectives == {"AND", "OR", "NOT"}
DialectOperators == {">=", "<=", "<", ">", "=", "<>", "LIKE"}
Punctuation == {"(", ")", ",", "'", "IN", "IS", "NULL"}

IsWord(text, i) ==
  /\ i <= Len(text)
  /\ text[i] \notin Connectives \cup DialectOperators \cup Punctuation

\* the number of tokens of the literal that starts at token i (0: none)
LiteralLen(text, i) ==
  IF i + 2 <= Len(text) /\ text[i] = "'" /\ text[i + 2] = "'" THEN 3
  ELSE IF IsWord(text, i) THEN 1 ELSE 0

\* the position after the list of literals that starts at token i (0: none)
RECURSIVE ListEnd(_, _)
ListEnd(text, i) ==
  LET n == LiteralLen(text, i)
  IN IF n = 0 \/ i + n > Len(text) THEN 0
     ELSE IF text[i + n] = ")" THEN i + n + 1
     ELSE IF text[i + n] = "," THEN ListEnd(text, i + n + 1)
     ELSE 0

\* the position after the predicate that starts at token i (0: none)
PredicateEnd(text, i) ==
  IF ~IsWord(text, i) \/ i + 1 > Len(text) THEN 0
  ELSE IF text[i + 1] \in DialectOperators
    THEN IF LiteralLen(text, i + 2) = 0 THEN 0
         ELSE i + 2 + LiteralLen(text, i + 2)
  ELSE IF text[i + 1] = "IS"
    THEN IF i + 2 <= Len(text) /\ text[i + 2] = "NULL" THEN i + 3
         ELSE IF i + 3 <= Len(text) /\ text[i + 2] = "NOT"
                   /\ text[i + 3] = "NULL" THEN i + 4
         ELSE 0
  ELSE IF text[i + 1] = "IN" /\ i + 2 <= Len(text) /\ text[i + 2] = "("
    THEN ListEnd(text, i + 3)
  ELSE 0

\* from token i on: a predicate, then connective and predicate in turn
RECURSIVE ValidFrom(_, _)
ValidFrom(text, i) ==
  LET e == PredicateEnd(text, i)
  IN /\ e # 0
     /\ \/ e = Len(text) + 1
        \/ /\ e <= Len(text)
           /\ text[e] \in {"AND", "OR"}
           /\ ValidFrom(text, e + 1)

ValidCondition(text) == text = <<>> \/ ValidFrom(text, 1)

\* C23: once the filter is compiled, the pushed text is empty or a valid
\* condition: it does not begin with a connective and one connective
\* separates two neighbouring predicates.
C23_PushedTextIsValid ==
  qphase # "quals" => ValidCondition(predicate)

\* a comparison the pushdown rules support: an allowed operator of the
\* standard namespace between a column of the scanned relation and a
\* literal that is neither temporal nor too long
SupportedComparison(node) ==
  /\ node.kind = "OpExpr"
  /\ ~Unsupported(node)
  /\ node.args[1].kind = "Var"
  /\ node.args[2].kind = "Const"
  /\ node.args[2].name # LongText

QuotedTypes == {"TEXTOID", "BPCHAROID", "VARCHAROID"}

\* a comparison in the remote dialect: column, operator, literal, the
\* literal in quotes when it is a string
ComparisonText(node) ==
  <<node.args[1].name, pg_operator[node.name].oprname>>
    \o (IF node.args[2].type \in QuotedTypes
          THEN <<"'", node.args[2].name, "'">>
          ELSE <<node.args[2].name>>)

\* C24: for a filter of two supported comparisons on the scanned relation,
\* the pushed text is the two comparisons in their order with AND between
\* them, string literals quoted, and the residual list is empty.
C24_TwoComparisonsJoinedByAnd ==
  (/\ qphase # "quals"
   /\ predicate_pushdown
   /\ Len(baserestrictinfo) = 2
   /\ \A i \in 1..2 : SupportedComparison(baserestrictinfo[i]))
    => /\ predicate = ComparisonText(baserestrictinfo[1]) \o <<"AND">>
                        \o ComparisonText(baserestrictinfo[2])
       /\ excl_restrictInfo = <<>>

C24_Witness ==
  /\ qphase = "filtered"
  /\ predicate_pushdown
  /\ baserestrictinfo =
       << Op("eq", Col("a", "INT4OID"), Lit("5", "INT4OID")),
          Op("gt", Col("b", "TEXTOID"), Lit("a", "TEXTOID")) >>
  /\ predicate = <<"a", "=", "5", "AND", "b", ">", "'", "a", "'">>
  /\ excl_restrictInfo = <<>>

(***************************************************************************)
(* Claims on the statement text and the cursor kind of a scan.             *)
(***************************************************************************)
EndsWithForUpdate(query) ==
  /\ Len(query) >= 2
  /\ query[Len(query) - 1] = "FOR"
  /\ query[Len(query)] = "UPDATE"

\* C26: the kind the cursor of a planned scan was declared with is the
\* updatable one exactly when the text of its statement ends with FOR
\* UPDATE.
C26_CursorKindAgreesWithText ==
  \A s \in Scans :
    (phase[s] # "none" /\ plan[s].query # <<>>) =>
      (EndsWithForUpdate(plan[s].query)
         <=> plan[s].cursorUsage = "IFX_UPDATE_CURSOR")

(***************************************************************************)
(* Claims on the re-scan.                                                  *)
(***************************************************************************)
Closed(log) == \E i \in 1..Len(log) : log[i] = ReleaseCall("CLOSE")

\* the row an open cursor stands on: 0 before the first, 2 for a later one
Row(held) == IF "LATER" \in held THEN 2 ELSE IF "FIRST" \in held THEN 1 ELSE 0

\* C27: on a remote side that answers the calls of a fetch with success or
\* with the end of the result set, a fetch that finds a re-scan requested
\* consumes the request and leaves the cursor on no later row than the
\* first, without closing a scrollable cursor and by closing and reopening
\* any other; a fetch with no re-scan requested closes nothing and moves the
\* cursor on by at most one row, never back.
C27_ReScanRestartsOnce ==
  [][ (lastOp'.op = "Iterate" /\ ~lastOp'.raised) =>
        LET s == lastOp'.scan
        IN IF fest[s].rescan
             THEN /\ ~fest'[s].rescan
                  /\ Row(res'[s]) <= 1
                  /\ Closed(lastOp'.log)
                       <=> plan[s].cursorUsage # "IFX_SCROLL_CURSOR"
                  /\ "OPEN" \in res'[s]
             ELSE /\ ~fest'[s].rescan
                  /\ ~Closed(lastOp'.log)
                  /\ Row(res'[s]) >= Row(res[s])
                  /\ Row(res'[s]) <= Row(res[s]) + 1
    ]_vars

\* a fetch has closed and reopened the cursor and stands on the first row
C27_Witness ==
  /\ lastOp.op = "Iterate"
  /\ ~lastOp.raised
  /\ Closed(lastOp.log)
  /\ "FIRST" \in res[lastOp.scan]
  /\ ~fest[lastOp.scan].rescan

(***************************************************************************)
(* Claims on the errors of a fetch.                                        *)
(***************************************************************************)
\* C28: a fetch that ends with an ERROR of the row assembly (a value that
\* cannot be converted, a row identity that cannot be extracted) has unwound
\* the call stack: the stack is empty and the cursor is not open any more.
C28_RowAssemblyErrorUnwinds ==
  (lastOp.op = "Iterate" /\ lastOp.raised /\ lastOp.errclass = "LOCAL")
    => /\ lastOp.unwound
       /\ lastOp.stack = IFX_STACK_EMPTY
       /\ "OPEN" \notin lastOp.held

\* C29: a fetch classified as not found returns the empty slot: no ERROR is
\* reported, nothing is unwound and the call stack is as it was.
C29_NotFoundEndsScan ==
  (lastOp.op = "Iterate" /\ lastOp.fetch = "IFX_NOT_FOUND")
    => /\ ~lastOp.raised
       /\ lastOp.slot = "empty"
       /\ ~lastOp.unwound
       /\ lastOp.pushes = <<>>
       /\ lastOp.stack = lastOp.before

C29_Witness ==
  /\ lastOp.op = "Iterate"
  /\ lastOp.fetch = "IFX_NOT_FOUND"
  /\ lastOp.slot = "empty"
  /\ phase[lastOp.scan] = "running"

\* C30: when the trap raises for an outcome classified as a runtime error,
\* the call stack of the statement was unwound first and is Empty, and what
\* is raised is an ERROR of the host: the transaction aborts and the process
\* of the host goes on.
C30_RuntimeErrorUnwindsThenErrors ==
  (lastOp.raised /\ lastOp.errclass = "IFX_RT_ERROR")
    => /\ lastOp.unwound
       /\ lastOp.stack = IFX_STACK_EMPTY
       /\ lastOp.elevel = "ERROR"
       /\ host = "aborting"

C30_Witness ==
  /\ lastOp.raised
  /\ lastOp.errclass = "IFX_RT_ERROR"
  /\ lastOp.before # IFX_STACK_EMPTY
  /\ lastOp.log # <<>>
  /\ host = "aborting"

\* the position of the k-th placeholder of a statement
PlaceholderAt(query, k) ==
  CHOOSE p \in Placeholders(query) :
    Cardinality({r \in Placeholders(query) : r < p}) = k - 1

\* the column the k-th placeholder of a statement stands for: the k-th name
\* of the column list of an INSERT, the name a placeholder is compared with
\* or assigned to otherwise
PlaceholderColumn(query, k) ==
  IF query[1] = "INSERT" THEN query[2 + k]
  ELSE query[PlaceholderAt(query, k) - 2]

\* C25: when a row of a modify statement is sent, a value is bound to every
\* placeholder of the statement text and to nothing else, the value bound to
\* parameter k is the value of the column the k-th placeholder stands for,
\* and with ROWIDs the row identity is bound to the last placeholder of an
\* UPDATE or a DELETE.
C25_PlaceholdersMatchBoundParameters ==
  modify.step = "executed"
    => LET n == Cardinality(Placeholders(modify.query))
       IN /\ DOMAIN modify.sqlda = 0..(n - 1)
          /\ \A k \in 1..n :
               PlaceholderColumn(modify.query, k) = modify.sqlda[k - 1]
          /\ (modify.operation # "CMD_INSERT" /\ ~modify.disable_rowid)
               => (n > 0 /\ modify.sqlda[n - 1] = "rowid")

(***************************************************************************)
(* Claims on the operators and the expressions of the pushdown.            *)
(***************************************************************************)
\* the predicates the walker has collected for a filter
PushdownPredicates(quals) ==
  LET predicates == FilterLoop(quals, 1,
             [cxt |-> [predicates |-> <<>>, count |-> 0, count_removed |-> 0,
                       has_or_expr |-> FALSE],
              excl |-> <<>>]).cxt.predicates
  IN {predicates[i] : i \in DOMAIN predicates}

\* C33: no predicate the walker has collected is an expression in progress
\* (IFX_MAKE_COOKED_EXPR), and every comparison among them is finished with
\* all of its operands in the cooked expression.
C33_NoPartiallyCookedPredicate ==
  (qphase # "quals" /\ predicate_pushdown)
    => \A info \in PushdownPredicates(baserestrictinfo) :
         /\ info.deparsetype # "IFX_MAKE_COOKED_EXPR"
         /\ info.expr.kind = "OpExpr"
              => /\ info.deparsetype = "IFX_COOKED_EXPR"
                 /\ info.arg_idx = info.num_args
                 /\ Len(info.expr.args) = info.num_args

\* a comparison of two operands was cooked and its text pushed
C33_Witness ==
  /\ qphase = "filtered"
  /\ predicate_pushdown
  /\ predicate # <<>>
  /\ \E info \in PushdownPredicates(baserestrictinfo) :
       /\ info.expr.kind = "OpExpr"
       /\ info.num_args = 2
       /\ info.deparsetype = "IFX_COOKED_EXPR"

\* an operator outside the allow list or outside the standard namespace
ForeignOperator(oprid) ==
  \/ pg_operator[oprid].oprname \notin AllowedOperators
  \/ pg_operator[oprid].oprnamespace # "pg_catalog"

\* C31: every comparison the walker has collected for the pushdown has an
\* operator of the allow list that belongs to pg_catalog; a filter that is
\* one comparison with any other operator, also one of an allowed name from
\* another namespace, pushes no text and stays with the host.
C31_OnlyAllowedCatalogOperators ==
  (qphase # "quals" /\ predicate_pushdown)
    => /\ \A info \in PushdownPredicates(baserestrictinfo) :
            info.expr.kind = "OpExpr" => ~ForeignOperator(info.expr.name)
       /\ ( /\ Len(baserestrictinfo) = 1
            /\ baserestrictinfo[1].kind = "OpExpr"
            /\ ForeignOperator(baserestrictinfo[1].name) )
            => /\ predicate = <<>>
               /\ excl_restrictInfo = baserestrictinfo

\* a comparison with the operator = of another namespace was rejected
C31_Witness ==
  /\ qphase = "planned"
  /\ predicate_pushdown
  /\ Len(baserestrictinfo) = 1
  /\ baserestrictinfo[1].kind = "OpExpr"
  /\ pg_operator[baserestrictinfo[1].name].oprname = "="
  /\ pg_operator[baserestrictinfo[1].name].oprnamespace # "pg_catalog"
  /\ predicate = <<>>
  /\ scan_clauses = baserestrictinfo

(***************************************************************************)
(* Claims on the scalar-array operations of the pushdown.                  *)
(***************************************************************************)
\* C32: the filter a IN (1,2,3) is pushed as the column, IN( and the three
\* element literals separated by a comma, and no clause is left for the
\* host to evaluate.
C32_InListPushedWhole ==
  ( /\ qphase # "quals"
    /\ predicate_pushdown
    /\ baserestrictinfo =
         <<In(Col("a", "INT4OID"),
              <<Lit("1", "INT4OID"), Lit("2", "INT4OID"),
                Lit("3", "INT4OID")>>)>> )
    => /\ predicate = <<"a", "IN", "(", "1", ",", "2", ",", "3", ")">>
       /\ excl_restrictInfo = <<>>
       /\ qphase = "planned" => scan_clauses = <<>>

\* the plan of a IN (1,2,3) with the pushdown
C32_Witness ==
  /\ qphase = "planned"
  /\ predicate_pushdown
  /\ baserestrictinfo[1].name = "eq"
  /\ baserestrictinfo[1].useOr
  /\ baserestrictinfo[1].args[1] = Col("a", "INT4OID")
  /\ Len(baserestrictinfo[1].args[2].args) = 3
  /\ predicate # <<>>

\* C35: a scalar-array operation that is not an equality with ANY member
\* of the array pushes no text and stays with the host.
C35_OnlyEqualsAnyIsPushed ==
  ( /\ qphase # "quals"
    /\ predicate_pushdown
    /\ baserestrictinfo[1].kind = "ScalarArrayOpExpr"
    /\ ~ ( /\ pg_operator[baserestrictinfo[1].name].oprname = "="
           /\ baserestrictinfo[1].useOr ) )
    => /\ predicate = <<>>
       /\ excl_restrictInfo = baserestrictinfo

(***************************************************************************)
(* Claims on the meaning of the pushed predicate.  A valuation gives every *)
(* comparison, null test or list-membership test of a filter its truth on  *)
(* one row.                                                                *)
(***************************************************************************)
\* the tests below the boolean operators of a clause
RECURSIVE Leaves(_)
Leaves(node) ==
  IF node.kind = "BoolExpr"
    THEN UNION { Leaves(node.args[i]) : i \in 1..Len(node.args) }
    ELSE {node}

\* the truth of a clause as the host evaluates it
RECURSIVE Holds(_, _)
Holds(node, v) ==
  IF node.kind # "BoolExpr" THEN v[node]
  ELSE CASE node.name = "AND_EXPR" ->
              \A i \in 1..Len(node.args) : Holds(node.args[i], v)
         [] node.name = "OR_EXPR" ->
              \E i \in 1..Len(node.args) : Holds(node.args[i], v)
         [] node.name = "NOT_EXPR" -> ~Holds(node.args[1], v)

\* the pieces of a text between the occurrences of a connective
RECURSIVE Split(_, _)
Split(text, sep) ==
  IF \A k \in 1..Len(text) : text[k] # sep THEN <<text>>
  ELSE LET k == CHOOSE j \in 1..Len(text) :
                  text[j] = sep /\ \A l \in 1..(j - 1) : text[l] # sep
       IN <<SubSeq(text, 1, k - 1)>>
            \o Split(SubSeq(text, k + 1, Len(text)), sep)

\* the text of a test that is pushed on its own
PushedAlone(node) == ifxFilterQuals(<<node>>).predicate

\* the pushed text is a disjunction of conjunctions of tests of the filter
WellFormedText(text, leaves) ==
  \A d \in 1..Len(Split(text, "OR")) :
    \A c \in 1..Len(Split(Split(text, "OR")[d], "AND")) :
      /\ Split(Split(text, "OR")[d], "AND")[c] # <<>>
      /\ \E a \in leaves :
           PushedAlone(a) = Split(Split(text, "OR")[d], "AND")[c]

\* the truth of the pushed text as the remote server evaluates it: AND
\* binds tighter than OR
TextHolds(text, leaves, v) ==
  \E d \in 1..Len(Split(text, "OR")) :
    \A c \in 1..Len(Split(Split(text, "OR")[d], "AND")) :
      v[CHOOSE a \in leaves :
          PushedAlone(a) = Split(Split(text, "OR")[d], "AND")[c]]

\* the clauses of the filter that are not left to the host
RemovedClauses ==
  { i \in 1..Len(baserestrictinfo) :
      \A j \in 1..Len(excl_restrictInfo) :
        excl_restrictInfo[j] # baserestrictinfo[i] }

\* the pushed text and the removed clauses select the same rows
SameRows(text, removed) ==
  LET leaves == UNION { Leaves(baserestrictinfo[i]) : i \in removed }
  IN /\ WellFormedText(text, leaves)
     /\ \A v \in [leaves -> BOOLEAN] :
          TextHolds(text, leaves, v)
            <=> \A i \in removed : Holds(baserestrictinfo[i], v)

\* C34: the pushed text is true on exactly the rows on which every clause
\* removed from the local evaluation is true, negations and the grouping of
\* an OR below the AND of the clauses included; without a removed clause
\* there is no text.
C34_PushedTextPreservesMeaning ==
  (qphase # "quals" /\ predicate_pushdown)
    => IF RemovedClauses = {} THEN predicate = <<>>
       ELSE SameRows(predicate, RemovedClauses)

(***************************************************************************)
(* Claims on cached plans, cache entries and statement names.              *)
(***************************************************************************)
\* the statement and the cursor the call stack of a plan records
RecordedByPlan(p) == p.call_stack \cap (IFX_STACK_PREPARE \cup IFX_STACK_DECLARE)

\* C36: the begin of a scan prepares and declares again exactly when the
\* call stack it restored from the plan was empty, and a plan whose call
\* stack is not empty records a statement and a cursor that exist on the
\* session of the scan, whatever was planned, begun, explained, ended,
\* failed or closed before.
C36_RestoredStackMatchesSession ==
  /\ (lastOp.op = "Begin" /\ ~lastOp.raised)
       => ( (\E i \in 1..Len(lastOp.pushes) :
               lastOp.pushes[i] = IFX_STACK_PREPARE)
            <=> lastOp.before = IFX_STACK_EMPTY )
  /\ \A s \in Scans :
       (host = "running" /\ phase[s] = "planned"
          /\ plan[s].call_stack # IFX_STACK_EMPTY)
         => /\ established[skey[s]]
            /\ RecordedByPlan(plan[s]) \subseteq res[s]

\* C37: every entry of the connection cache stands for an established
\* session, also after the begin or the fetch of a scan whose connection
\* was closed after planning.
C37_CachedMeansEstablished ==
  \A k \in Keys : cache[k].present => established[k]

\* the statements that exist on the session of connection k
LiveOn(k) ==
  {s \in Scans : skey[s] = k /\ established[k] /\ "PREPARE" \in res[s]}

\* C38: two statements that exist on the same session have different
\* statement, cursor and descriptor names, also when the session was closed
\* and created again while a plan carries a reference id of the old one.
C38_LiveNamesDistinct ==
  \A k \in Keys : \A s, t \in LiveOn(k) :
    s # t => /\ ifxGenStatementName(plan[s].refid)
                  # ifxGenStatementName(plan[t].refid)
             /\ ifxGenCursorName(plan[s].refid)
                  # ifxGenCursorName(plan[t].refid)
             /\ ifxGenDescrName(plan[s].refid)
                  # ifxGenDescrName(plan[t].refid)

\* C39: the callback of a transaction abort never reports an ERROR: a
\* session that cannot be made current and a rollback the server rejects
\* are warnings, and the host leaves the abort.
C39_AbortNeverRaises ==
  lastOp.op = "Abort"
    => /\ ~lastOp.raised
       /\ lastOp.elevel # "ERROR"
       /\ host = "running"

\* an abort in which the session could not be made current and the
\* rollback was rejected, so that the transaction is still recorded
C39_Witness ==
  /\ lastOp.op = "Abort"
  /\ lastOp.connfail
  /\ lastOp.elevel = "WARNING"
  /\ \E k \in Keys : cache[k].present /\ cache[k].tx_in_progress >= 1

====
